---- MODULE Spec2Model ----
(***************************************************************************)
(* Trade-undo simulation engine of the Sleeper league dashboard            *)
(* (src/src/services/tradeSimulationEngine.ts) with the matchup loader of  *)
(* src/src/services/sleeperApi.ts, the cross-season loader and draft pick   *)
(* labels of the trade selector (src/unnamed/part_007 over the provider of *)
(* src/unnamed/part_001) and the state of the trade simulator component    *)
(* (src/src/components/TradeSimulator.tsx).                                *)
(*                                                                         *)
(* Conventions                                                             *)
(*   - player ids and roster ids are numbers; Object.entries of a record   *)
(*     keyed by numeric strings enumerates the keys in ascending order.    *)
(*   - point totals are integers counting thousandths of a point, so that  *)
(*     Math.round(x * 100) / 100 is a real rounding step (Round2).         *)
(*   - a JS array or record held by reference lives in `heap`; a variable  *)
(*     holding it holds its address.                                       *)
(*   - teamName (display text looked up in users) is left out of the       *)
(*     standings and impact records: no step of the engine reads it.       *)
(*   - a season is its year as a number (parseInt of the season string), a *)
(*     league id is the number of the year the league was played in; 0 is  *)
(*     a null or undefined id, "" the empty string and <<>> a missing      *)
(*     record.                                                             *)
(***************************************************************************)
EXTENDS Integers, Sequences, FiniteSets, TLC

\* ------------------------------------------------------------------ bounds
NumPlayers == 2
NumRosters == 3
MaxUndo == 2
MaxTime == 2
MaxMoves == 1
NumStarters == 1
NumWeeks == 2
NumYears == 3
NumRounds == 2
MaxOutage == 1

Players == 1..NumPlayers
RosterIds == 1..NumRosters
Weeks == 1..NumWeeks

VARIABLES
  heap,              \* address -> roster array (the JS objects held by reference)
  originalRosters,   \* this.originalRosters: address of the array the caller passed
  givenRosters,      \* the roster array as it was when the engine was constructed
  trades,            \* the league's completed trades the caller can pass
  leagueMatchups,    \* what the provider holds: week -> matchup array
  allMatchups,       \* this.allMatchups
  tradesToUndo,      \* argument of simulateUndoTrades
  sortedTrades,      \* the part of sortedTrades that forEach has not visited yet
  alternateRosters,  \* address of the alternate roster array (0: none yet)
  originalStandings,
  simulatedMatchups,
  simulatedStandings,
  weeklyImpact,
  affectedTeams,
  pc,
  \* the trade selector (TradeSelector)
  league,              \* props.league: the consolidated league
  tradedPicks,         \* the draft_picks of props.trades, in order
  draftShape,          \* what drafts the provider holds for a league
  outage,              \* the provider endpoints that fail
  currentYear,         \* the calendar year
  seasonsNeeded,       \* the part of seasonsNeeded the for loop has not visited yet
  crossSeasonDataMap,  \* the local map loadCrossSeasonData fills
  crossSeasonData,     \* the component state of that name
  resolved,            \* season -> what findLeagueIdForSeason answered for it
  loaderPc,
  shownPick,           \* the pick formatDraftPick was last called with
  label,               \* what it returned
  \* the trade simulator (TradeSimulator)
  selectedTrades,      \* the transaction ids ticked in the selector, in order
  simulationResult,    \* the result on display (<<>>: null)
  simulating,
  resultTrades,        \* the trades that were undone to produce simulationResult
  clearedSinceRun      \* Clear was pressed and no simulation was started since

engineVars == <<heap, originalRosters, givenRosters, trades, leagueMatchups,
                allMatchups, tradesToUndo, sortedTrades, alternateRosters,
                originalStandings, simulatedMatchups, simulatedStandings,
                weeklyImpact, affectedTeams, pc>>

selectorVars == <<league, tradedPicks, draftShape, outage, currentYear,
                  seasonsNeeded, crossSeasonDataMap, crossSeasonData, resolved,
                  loaderPc, shownPick, label>>

simulatorVars ==
  <<selectedTrades, simulationResult, simulating, resultTrades, clearedSinceRun>>

vars == <<engineVars, selectorVars, simulatorVars>>

\* ------------------------------------------------------------ JS helpers
\* Array.prototype.includes
Includes(arr, x) == \E i \in 1..Len(arr) : arr[i] = x

\* the filter with its test inverted: arr.filter(p => p === x)
KeepOnly(arr, x) == SelectSeq(arr, LAMBDA p : p = x)

\* arr.filter(p => p !== x)
Without(arr, x) == SelectSeq(arr, LAMBDA p : p # x)

\* Range of an array
Elems(arr) == {arr[i] : i \in 1..Len(arr)}

\* rosters.find(r => r.roster_id === rosterId), as an index (0: undefined)
FindRoster(rosters, rosterId) ==
  IF \E i \in 1..Len(rosters) : rosters[i].roster_id = rosterId
  THEN CHOOSE i \in 1..Len(rosters) :
         /\ rosters[i].roster_id = rosterId
         /\ \A j \in 1..(i - 1) : rosters[j].roster_id # rosterId
  ELSE 0

\* The keys of a record with numeric keys, ascending, as Object.entries lists them
RECURSIVE KeysAscending(_)
KeysAscending(keys) ==
  IF keys = {} THEN <<>>
  ELSE LET k == CHOOSE x \in keys : \A y \in keys : x <= y
       IN <<k>> \o KeysAscending(keys \ {k})

\* Object.entries(rec || {}): <<key, value>> pairs; a null record is the empty one
Entries(rec) == [i \in 1..Cardinality(DOMAIN rec) |->
                   <<KeysAscending(DOMAIN rec)[i], rec[KeysAscending(DOMAIN rec)[i]]>>]

\* Math.round(x * 100) / 100 on thousandths of a point; Math.round is floor(x + 0.5)
Round2(x) == ((x + 5) \div 10) * 10

\* ------------------------------------------------- createAlternateRosters
\* no copy at all: the alternate array is the original array
AliasCopy(h, ref) == [heap |-> h, ref |-> ref]

\* JSON.parse(JSON.stringify(x)): a new array at a fresh address, equal in content
JsonCopy(h, ref) ==
  LET fresh == 1 + Cardinality(DOMAIN h)
  IN [heap |-> h @@ (fresh :> h[ref]), ref |-> fresh]

\* the comparator turned round: (a, b) => a.status_updated - b.status_updated
TradeBeforeOldestFirst(a, b) == a.status_updated - b.status_updated < 0

\* (a, b) => b.status_updated - a.status_updated
TradeBefore(a, b) == b.status_updated - a.status_updated < 0

\* [...tradesToUndo].sort(cmp): a stable sort, written as an insertion sort.
\* InsertTrade puts trade behind every element it is not strictly before.
RECURSIVE InsertTrade(_, _)
InsertTrade(sorted, trade) ==
  IF sorted = <<>> THEN <<trade>>
  ELSE IF TradeBefore(trade, sorted[Len(sorted)])
       THEN Append(InsertTrade(SubSeq(sorted, 1, Len(sorted) - 1), trade),
                   sorted[Len(sorted)])
       ELSE Append(sorted, trade)

\* (the trades undone in the order they were passed in)
KeepOrder(tradeList) == tradeList

RECURSIVE SortTrades(_)
SortTrades(tradeList) ==
  IF tradeList = <<>> THEN <<>>
  ELSE InsertTrade(SortTrades(SubSeq(tradeList, 1, Len(tradeList) - 1)),
                   tradeList[Len(tradeList)])

\* ------------------------------------------------------------- undoTrade
\* the iteration over trade.adds without the line that filters roster.starters
RemoveAddKeepStarters(rosters, playerId, rosterId) ==
  LET i == FindRoster(rosters, rosterId)
  IN IF i = 0 THEN rosters
     ELSE [rosters EXCEPT ![i].players = SelectSeq(@, LAMBDA p : p # playerId)]

\* one iteration of the forEach over trade.adds
RemoveAdd(rosters, playerId, rosterId) ==
  LET i == FindRoster(rosters, rosterId)
  IN IF i = 0 THEN rosters
     ELSE [rosters EXCEPT ![i].players = Without(@, playerId),
                          ![i].starters = Without(@, playerId)]

\* the iteration over trade.drops without the includes test
RestoreDropAlways(rosters, playerId, rosterId) ==
  LET i == FindRoster(rosters, rosterId)
  IN IF i = 0 THEN rosters
     ELSE [rosters EXCEPT ![i].players = Append(@, playerId)]

\* (the returned player put into the starting lineup as well)
RestoreDropIntoLineup(rosters, playerId, rosterId) ==
  LET i == FindRoster(rosters, rosterId)
  IN IF i = 0 THEN rosters
     ELSE IF ~Includes(rosters[i].players, playerId)
          THEN [rosters EXCEPT ![i].players = Append(@, playerId),
                               ![i].starters = Append(@, playerId)]
          ELSE rosters

\* one iteration of the forEach over trade.drops
RestoreDrop(rosters, playerId, rosterId) ==
  LET i == FindRoster(rosters, rosterId)
  IN IF i = 0 THEN rosters
     ELSE IF ~Includes(rosters[i].players, playerId)
          THEN [rosters EXCEPT ![i].players = Append(@, playerId)]
          ELSE rosters

RECURSIVE RemoveAdds(_, _)
RemoveAdds(rosters, entries) ==
  IF entries = <<>> THEN rosters
  ELSE RemoveAdds(RemoveAdd(rosters, entries[1][1], entries[1][2]), Tail(entries))

RECURSIVE RestoreDrops(_, _)
RestoreDrops(rosters, entries) ==
  IF entries = <<>> THEN rosters
  ELSE RestoreDrops(RestoreDrop(rosters, entries[1][1], entries[1][2]), Tail(entries))

UndoTrade(rosters, trade) ==
  RestoreDrops(RemoveAdds(rosters, Entries(trade.adds)), Entries(trade.drops))

\* ------------------------------------------- calculateSimulatedPoints
\* originalMatchup.players_points?.[playerId] || 0
PlayerPoints(matchup, playerId) ==
  IF playerId \in DOMAIN matchup.players_points
  THEN matchup.players_points[playerId]
  ELSE 0

\* the sum the forEach loops accumulate over an array of player ids
RECURSIVE SumPoints(_, _)
SumPoints(matchup, playerIds) ==
  IF playerIds = <<>> THEN 0
  ELSE PlayerPoints(matchup, playerIds[1]) + SumPoints(matchup, Tail(playerIds))

\* this.originalRosters.find(r => r.roster_id === id)?.players || []
OriginalPlayers(origRosters, rosterId) ==
  IF FindRoster(origRosters, rosterId) = 0 THEN <<>>
  ELSE origRosters[FindRoster(origRosters, rosterId)].players

\* the clamp left out
Unclamped(x) == x

\* Math.max(0, x)
Max0(x) == IF x > 0 THEN x ELSE 0

\* the adjustment without the loop over lostPlayers
SimulatedPointsGainedOnly(originalMatchup, alternateRoster, origRosters) ==
  LET originalPlayers == OriginalPlayers(origRosters, alternateRoster.roster_id)
      gainedPlayers == SelectSeq(alternateRoster.players,
                                 LAMBDA p : ~Includes(originalPlayers, p))
  IN Max0(originalMatchup.points + SumPoints(originalMatchup, gainedPlayers))

CalculateSimulatedPoints(originalMatchup, alternateRoster, origRosters) ==
  LET originalPlayers == OriginalPlayers(origRosters, alternateRoster.roster_id)
      alternatePlayers == alternateRoster.players
      gainedPlayers == SelectSeq(alternatePlayers, LAMBDA p : ~Includes(originalPlayers, p))
      lostPlayers == SelectSeq(originalPlayers, LAMBDA p : ~Includes(alternatePlayers, p))
      pointsAdjustment == SumPoints(originalMatchup, gainedPlayers)
                            - SumPoints(originalMatchup, lostPlayers)
  IN Max0(originalMatchup.points + pointsAdjustment)

\* the callback of matchups.map in simulateMatchupsWithAlternateRosters
SimulateMatchup(matchup, altRosters, origRosters) ==
  LET i == FindRoster(altRosters, matchup.roster_id)
  IN IF i = 0 THEN matchup
     ELSE [matchup EXCEPT !.points = CalculateSimulatedPoints(matchup, altRosters[i], origRosters)]

SimulateMatchupsWithAlternateRosters(matchups, altRosters, origRosters) ==
  [week \in DOMAIN matchups |->
     [i \in 1..Len(matchups[week]) |->
        SimulateMatchup(matchups[week][i], altRosters, origRosters)]]

\* ------------------------------------------------------ calculateStandings
\* roster.settings.<field> || 0: a missing field counts as zero
Setting(roster, field) ==
  IF field \in DOMAIN roster.settings THEN roster.settings[field] ELSE 0

\* the comparator without its tie-break: (a, b) => b.wins - a.wins
StandingBeforeWinsOnly(a, b) == b.wins - a.wins < 0

\* (a, b) => b.wins !== a.wins ? b.wins - a.wins : b.pointsFor - a.pointsFor, < 0
StandingBefore(a, b) ==
  IF b.wins # a.wins THEN b.wins - a.wins < 0 ELSE b.pointsFor - a.pointsFor < 0

RECURSIVE InsertStanding(_, _)
InsertStanding(sorted, team) ==
  IF sorted = <<>> THEN <<team>>
  ELSE IF StandingBefore(team, sorted[Len(sorted)])
       THEN Append(InsertStanding(SubSeq(sorted, 1, Len(sorted) - 1), team),
                   sorted[Len(sorted)])
       ELSE Append(sorted, team)

\* .sort(cmp) on the standings array (stable)
RECURSIVE SortStandings(_)
SortStandings(teams) ==
  IF teams = <<>> THEN <<>>
  ELSE InsertStanding(SortStandings(SubSeq(teams, 1, Len(teams) - 1)), teams[Len(teams)])

\* the closing map left out: every team keeps the rank it had before the sort
KeepRanks(teams) == teams

\* .map((team, index) => ({ ...team, rank: index + 1 })), index counted from 0
AssignRanks(teams) == [i \in 1..Len(teams) |-> [teams[i] EXCEPT !.rank = i]]

CalculateStandings(rosters) ==
  AssignRanks(SortStandings(
    [i \in 1..Len(rosters) |->
       [rosterId |-> rosters[i].roster_id,
        wins |-> Setting(rosters[i], "wins"),
        losses |-> Setting(rosters[i], "losses"),
        ties |-> Setting(rosters[i], "ties"),
        pointsFor |-> Setting(rosters[i], "fpts"),
        pointsAgainst |-> Setting(rosters[i], "fpts_against"),
        rank |-> i]]))

\* ------------------------------------------- calculateStandingsFromMatchups
ZeroStats == [wins |-> 0, losses |-> 0, ties |-> 0, pointsFor |-> 0, pointsAgainst |-> 0]

\* rosters.forEach(roster => teamStats[roster.roster_id] = {...zero})
InitTeamStats(rosters) ==
  [id \in {rosters[i].roster_id : i \in 1..Len(rosters)} |-> ZeroStats]

\* matchupGroups of one week: matchup_id -> the week's entries with that id, in order
MatchupGroups(weekMatchups) ==
  [id \in {weekMatchups[i].matchup_id : i \in 1..Len(weekMatchups)} |->
     SelectSeq(weekMatchups, LAMBDA m : m.matchup_id = id)]

\* (the first two entries of a larger group taken as a pairing)
ProcessPairOfFirstTwo(acc, matchupPair) ==
  IF acc.threw \/ Len(matchupPair) < 2 THEN acc
  ELSE LET id1 == matchupPair[1].roster_id
           id2 == matchupPair[2].roster_id
       IN IF id1 \notin DOMAIN acc.stats \/ id2 \notin DOMAIN acc.stats
          THEN [acc EXCEPT !.threw = TRUE]
          ELSE [acc EXCEPT !.stats = [@ EXCEPT ![id1].ties = @ + 1]]

\* The body of `if (matchupPair.length === 2)`. acc is [threw, stats]; reading a
\* field of teamStats[id] for an id that is no roster's throws a TypeError, which
\* ends calculateStandingsFromMatchups.
ProcessPair(acc, matchupPair) ==
  IF acc.threw \/ Len(matchupPair) # 2 THEN acc
  ELSE LET team1 == matchupPair[1]
           team2 == matchupPair[2]
           id1 == team1.roster_id
           id2 == team2.roster_id
       IN IF id1 \notin DOMAIN acc.stats \/ id2 \notin DOMAIN acc.stats
          THEN [acc EXCEPT !.threw = TRUE]
          ELSE LET s1 == [acc.stats EXCEPT ![id1].pointsFor = @ + team1.points,
                                           ![id1].pointsAgainst = @ + team2.points]
                   s2 == [s1 EXCEPT ![id2].pointsFor = @ + team2.points,
                                    ![id2].pointsAgainst = @ + team1.points]
                   s3 == IF team1.points > team2.points
                         THEN LET w == [s2 EXCEPT ![id1].wins = @ + 1]
                              IN [w EXCEPT ![id2].losses = @ + 1]
                         ELSE IF team2.points > team1.points
                         THEN LET w == [s2 EXCEPT ![id2].wins = @ + 1]
                              IN [w EXCEPT ![id1].losses = @ + 1]
                         ELSE LET t == [s2 EXCEPT ![id1].ties = @ + 1]
                              IN [t EXCEPT ![id2].ties = @ + 1]
               IN [acc EXCEPT !.stats = s3]

\* Object.values(matchupGroups).forEach(...)
RECURSIVE ProcessGroups(_, _, _)
ProcessGroups(acc, groups, ids) ==
  IF ids = <<>> THEN acc
  ELSE ProcessGroups(ProcessPair(acc, groups[ids[1]]), groups, Tail(ids))

\* Object.values(matchups).forEach(weekMatchups => ...)
RECURSIVE ProcessWeeks(_, _, _)
ProcessWeeks(acc, matchups, weeks) ==
  IF weeks = <<>> THEN acc
  ELSE ProcessWeeks(
         ProcessGroups(acc, MatchupGroups(matchups[weeks[1]]),
                       KeysAscending(DOMAIN MatchupGroups(matchups[weeks[1]]))),
         matchups, Tail(weeks))

\* [threw |-> TRUE] when the call throws, else the standings it returns
CalculateStandingsFromMatchups(matchups, rosters) ==
  LET acc == ProcessWeeks([threw |-> FALSE, stats |-> InitTeamStats(rosters)],
                          matchups, KeysAscending(DOMAIN matchups))
      teamStats == acc.stats
  IN IF acc.threw THEN [threw |-> TRUE, standings |-> <<>>]
     ELSE [threw |-> FALSE,
           standings |->
             AssignRanks(SortStandings(
               [i \in 1..Len(rosters) |->
                  [rosterId |-> rosters[i].roster_id,
                   wins |-> teamStats[rosters[i].roster_id].wins,
                   losses |-> teamStats[rosters[i].roster_id].losses,
                   ties |-> teamStats[rosters[i].roster_id].ties,
                   pointsFor |-> Round2(teamStats[rosters[i].roster_id].pointsFor),
                   pointsAgainst |-> Round2(teamStats[rosters[i].roster_id].pointsAgainst),
                   rank |-> 0]]))]

\* ---------------------------------------------------- calculateWeeklyImpact
\* allMatchups.find(m => m.matchup_id === id && m.roster_id !== rosterId), as an index
FindOpponent(matchup, weekMatchups) ==
  LET Opp(i) == /\ weekMatchups[i].matchup_id = matchup.matchup_id
                /\ weekMatchups[i].roster_id # matchup.roster_id
  IN IF \E i \in 1..Len(weekMatchups) : Opp(i)
     THEN CHOOSE i \in 1..Len(weekMatchups) : Opp(i) /\ \A j \in 1..(i - 1) : ~Opp(j)
     ELSE 0

GetMatchupResult(matchup, weekMatchups) ==
  LET o == FindOpponent(matchup, weekMatchups)
  IN IF o = 0 THEN "L"
     ELSE IF matchup.points > weekMatchups[o].points THEN "W"
     ELSE IF matchup.points < weekMatchups[o].points THEN "L"
     ELSE "T"

\* originalMatchups.find(m => m.roster_id === rosterId), as an index
FindMatchup(weekMatchups, rosterId) ==
  IF \E i \in 1..Len(weekMatchups) : weekMatchups[i].roster_id = rosterId
  THEN CHOOSE i \in 1..Len(weekMatchups) :
         /\ weekMatchups[i].roster_id = rosterId
         /\ \A j \in 1..(i - 1) : weekMatchups[j].roster_id # rosterId
  ELSE 0

\* the callback of matchups.map in calculateWeeklyImpact
TeamImpact(simulatedMatchup, simWeek, originalMatchups) ==
  LET o == FindMatchup(originalMatchups, simulatedMatchup.roster_id)
  IN IF o = 0
     THEN [rosterId |-> simulatedMatchup.roster_id,
           originalPoints |-> 0,
           simulatedPoints |-> simulatedMatchup.points,
           difference |-> simulatedMatchup.points,
           originalResult |-> "L",
           simulatedResult |-> "L"]
     ELSE [rosterId |-> simulatedMatchup.roster_id,
           originalPoints |-> Round2(originalMatchups[o].points),
           simulatedPoints |-> Round2(simulatedMatchup.points),
           difference |-> Round2(simulatedMatchup.points - originalMatchups[o].points),
           originalResult |-> GetMatchupResult(originalMatchups[o], originalMatchups),
           simulatedResult |-> GetMatchupResult(simulatedMatchup, simWeek)]

\* One entry per week of simulatedMatchups; Object.entries lists the weeks in
\* ascending order, which the closing sort by week keeps.
CalculateWeeklyImpact(simMatchups, origMatchups) ==
  LET weeks == KeysAscending(DOMAIN simMatchups)
  IN [k \in 1..Len(weeks) |->
        [week |-> weeks[k],
         teamImpacts |->
           [i \in 1..Len(simMatchups[weeks[k]]) |->
              TeamImpact(simMatchups[weeks[k]][i], simMatchups[weeks[k]],
                         IF weeks[k] \in DOMAIN origMatchups
                         THEN origMatchups[weeks[k]] ELSE <<>>)]]]

\* ------------------------------------------------------- getAffectedTeams
\* trade.roster_ids.forEach(rosterId => affectedTeams.add(rosterId.toString())):
\* a Set keeps the first insertion of each value, in insertion order
\* (every id appended, seen before or not)
AddAllRepeating(arr, ids) == arr \o [i \in 1..Len(ids) |-> ToString(ids[i])]

RECURSIVE AddAll(_, _)
AddAll(arr, ids) ==
  IF ids = <<>> THEN arr
  ELSE AddAll(IF Includes(arr, ToString(ids[1])) THEN arr
              ELSE Append(arr, ToString(ids[1])),
              Tail(ids))

RECURSIVE AffectedFrom(_, _)
AffectedFrom(arr, tradeList) ==
  IF tradeList = <<>> THEN arr
  ELSE AffectedFrom(AddAll(arr, tradeList[1].roster_ids), Tail(tradeList))

\* Array.from(affectedTeams) after trades.forEach(... add(rosterId.toString()))
GetAffectedTeams(tradeList) == AffectedFrom(<<>>, tradeList)

\* --------------------------------------------------------- getAllMatchups
\* Keeps the weeks whose getMatchups answer is not empty (a failed fetch answers [])
\* (every week kept, answered or not)
GetAllMatchupsKeepEmpty(responses) == responses

GetAllMatchups(responses) ==
  [week \in {w \in DOMAIN responses : Len(responses[w]) > 0} |-> responses[week]]

\* ------------------------------------------------------------ input data
\* the first NumStarters players of a roster fill its starting slots
Lineup(players) ==
  SubSeq(players, 1, IF Len(players) < NumStarters THEN Len(players) ELSE NumStarters)

\* A roster array as the provider lists it: one roster per id, in id order, every
\* player on at most one roster (place[p] = 0: on none), starters among the players.
RosterArray(place, settings) ==
  [i \in RosterIds |->
     [roster_id |-> i,
      players |-> KeysAscending({p \in Players : place[p] = i}),
      starters |-> Lineup(KeysAscending({p \in Players : place[p] = i})),
      settings |-> settings[i]]]

NoSettings == [i \in RosterIds |-> [wins |-> 0, losses |-> 0, ties |-> 0,
                                    fpts |-> 0, fpts_against |-> 0]]

RosterArrays(settingsChoices) ==
  {RosterArray(place, settings) :
     place \in [Players -> 0..NumRosters],
     settings \in settingsChoices}

\* The two rosters of the spec's end-to-end scenario: A (id 1) holds P1 and P2,
\* B (id 2) holds P3; both have 5 wins, A has 500 points for, B 480.
ScenarioRosters ==
  <<[roster_id |-> 1, players |-> <<1, 2>>, starters |-> Lineup(<<1, 2>>),
     settings |-> [wins |-> 5, losses |-> 0, ties |-> 0,
                   fpts |-> 500000, fpts_against |-> 0]],
    [roster_id |-> 2, players |-> <<3>>, starters |-> Lineup(<<3>>),
     settings |-> [wins |-> 5, losses |-> 0, ties |-> 0,
                   fpts |-> 480000, fpts_against |-> 0]]>>

\* A completed trade: each traded player goes from roster drops[p] to another
\* roster adds[p]; a trade of draft picks alone has no adds and no drops.
TradeOf(time, from, to) ==
  [status_updated |-> time,
   adds |-> to,
   drops |-> from,
   roster_ids |-> IF DOMAIN to = {} THEN <<1, 2>>
                  ELSE KeysAscending({from[p] : p \in DOMAIN from}
                                       \cup {to[p] : p \in DOMAIN to})]

TradesMoving(maxMoves, times) ==
  {TradeOf(time, from, to) :
     time \in times,
     <<from, to>> \in
       UNION {{ft \in [moved -> RosterIds] \X [moved -> RosterIds] :
                 \A p \in moved : ft[1][p] # ft[2][p]} :
              moved \in {m \in SUBSET Players : Cardinality(m) <= maxMoves}}}

\* the arguments simulateUndoTrades can be given: arrays of up to MaxUndo trades
TradeLists(pool) == UNION {[1..n -> pool] : n \in 0..MaxUndo}

\* ============================================================ trade selector
\* parseInt(previousSeason) >= 2018
EarliestSeason == 2018

Years == (EarliestSeason - 1)..(EarliestSeason + NumYears)
\* the seasons a consolidated league can list, and the seasons a traded pick can name
KnownYears == (EarliestSeason + 1)..(EarliestSeason + NumYears - 1)
PickSeasons == EarliestSeason..(EarliestSeason + NumYears)
LeagueIds == EarliestSeason..(EarliestSeason + NumYears - 1)

\* ------------------------------------------------------ consolidated league
\* seasons.sort((a, b) => parseInt(b.season) - parseInt(a.season)): most recent first
RECURSIVE Descending(_)
Descending(years) ==
  IF years = {} THEN <<>>
  ELSE LET latest == CHOOSE y \in years : \A z \in years : z <= y
       IN <<latest>> \o Descending(years \ {latest})

\* The league of the given seasons; a season in withPrevious carries the id of
\* the league of the year before as previous_league_id.
LeagueOf(years, withPrevious) ==
  LET seasons == [i \in 1..Cardinality(years) |->
                    [season |-> Descending(years)[i],
                     league_id |-> Descending(years)[i],
                     previous_league_id |->
                       IF Descending(years)[i] \in withPrevious
                       THEN Descending(years)[i] - 1 ELSE 0]]
  IN [seasons |-> seasons, mostRecentSeason |-> seasons[1]]

Leagues ==
  {LeagueOf(years, withPrevious) :
     years \in (SUBSET KnownYears) \ {{}}, withPrevious \in SUBSET KnownYears}

\* league.seasons.find(s => s.season === season), as an index
FindSeason(seasons, season) ==
  IF \E i \in 1..Len(seasons) : seasons[i].season = season
  THEN CHOOSE i \in 1..Len(seasons) :
         /\ seasons[i].season = season
         /\ \A j \in 1..(i - 1) : seasons[j].season # season
  ELSE 0

\* (the chain walked forward: the entry of the year before the target)
FindPrecedingSeason(seasons, targetYear) ==
  LET Precedes(i) == /\ seasons[i].season = targetYear - 1
                     /\ seasons[i].previous_league_id # 0
  IN IF \E i \in 1..Len(seasons) : Precedes(i)
     THEN CHOOSE i \in 1..Len(seasons) : Precedes(i)
     ELSE 0

\* the for loop over league.seasons of findLeagueIdForSeason, as an index
FindFollowingSeason(seasons, targetYear) ==
  LET Follows(i) == /\ seasons[i].season = targetYear + 1
                    /\ seasons[i].previous_league_id # 0
  IN IF \E i \in 1..Len(seasons) : Follows(i)
     THEN CHOOSE i \in 1..Len(seasons) : Follows(i) /\ \A j \in 1..(i - 1) : ~Follows(j)
     ELSE 0

\* findLeagueIdForSeason; 0 is null
FindLeagueIdForSeason(season, lg) ==
  LET currentLeagueYear == lg.mostRecentSeason.season
      targetYear == season
  IN IF FindSeason(lg.seasons, season) # 0
     THEN lg.seasons[FindSeason(lg.seasons, season)].league_id
     ELSE IF targetYear = currentLeagueYear - 1
             /\ lg.mostRecentSeason.previous_league_id # 0
     THEN lg.mostRecentSeason.previous_league_id
     ELSE IF FindFollowingSeason(lg.seasons, targetYear) # 0
     THEN lg.seasons[FindFollowingSeason(lg.seasons, targetYear)].previous_league_id
     ELSE 0

\* --------------------------------------------------------------- provider
\* the number of teams of the league played in a year: the league has one team
\* less in odd years
SeasonTeams(leagueId) == IF leagueId % 2 = 0 THEN NumRosters ELSE NumRosters - 1

\* the rosters of the league played in a year: the order of the records changes
\* from year to year
SeasonRosters(leagueId) ==
  [r \in 1..SeasonTeams(leagueId) |->
     [roster_id |-> r,
      owner_id |-> 10 + r,
      settings |-> [wins |-> (r + leagueId) % NumRosters, losses |-> 0, ties |-> 0,
                    fpts |-> 100000, fpts_against |-> 0]]]

\* the users of a league: every roster's owner but the last roster's; the owner
\* of roster 2 has no display name
SeasonUsers(leagueId) ==
  [r \in 1..(NumRosters - 1) |->
     [user_id |-> 10 + r,
      display_name |-> IF r = 2 THEN "" ELSE "Owner " \o ToString(r),
      username |-> "user" \o ToString(r)]]

DraftShapes == {"none", "unpicked", "one", "two"}

SeasonDrafts(leagueId, shape) ==
  CASE shape = "none" -> <<>>
    [] shape \in {"unpicked", "one"} -> <<[draft_id |-> 10 * leagueId + 1]>>
    [] OTHER -> <<[draft_id |-> 10 * leagueId + 1], [draft_id |-> 10 * leagueId + 2]>>

\* The picks of a draft, NumRounds rounds of NumRosters picks: pick 2 is missing
\* from the list and pick 3 has no player yet.
DraftPicksOf(draftId, shape) ==
  IF shape = "unpicked" THEN <<>>
  ELSE SelectSeq([n \in 1..(NumRounds * NumRosters) |->
                    [pick_no |-> n,
                     player_id |-> IF n = 3 THEN 0 ELSE 100 * (draftId % 10) + n]],
                 LAMBDA p : p.pick_no # 2)

\* the endpoints of the provider
Endpoints ==
  ({"rosters", "users", "drafts"} \X LeagueIds)
    \cup ({"picks"} \X UNION {{10 * id + 1, 10 * id + 2} : id \in LeagueIds})

Outages == {o \in SUBSET Endpoints : Cardinality(o) <= MaxOutage}

\* ---------------------------------------------------- loadCrossSeasonData
\* Set.add: insertion order, first insertion kept
AddSeason(seasons, season) ==
  IF Includes(seasons, season) THEN seasons ELSE Append(seasons, season)

\* the body of (trade.draft_picks || []).forEach(pick => ...)
AddPickSeasons(seasons, pick) ==
  LET withSeason == AddSeason(seasons, pick.season)
      previousSeason == pick.season - 1
  IN IF previousSeason >= EarliestSeason
     THEN AddSeason(withSeason, previousSeason)
     ELSE withSeason

RECURSIVE SeasonsNeeded(_, _)
SeasonsNeeded(seasons, picks) ==
  IF picks = <<>> THEN seasons
  ELSE SeasonsNeeded(AddPickSeasons(seasons, Head(picks)), Tail(picks))

\* the provider throws on a failing endpoint
Throws(down, endpoint, id) == <<endpoint, id>> \in down

\* the for loop over draftsData: does some getDraftPicks call throw
PicksThrow(down, drafts) ==
  \E i \in 1..Len(drafts) : Throws(down, "picks", drafts[i].draft_id)

\* the bundle the loop stores for a season whose fetches all answered
SeasonBundle(leagueIdForSeason, shape) ==
  LET draftsData == SeasonDrafts(leagueIdForSeason, shape)
  IN [rosters |-> SeasonRosters(leagueIdForSeason),
      users |-> SeasonUsers(leagueIdForSeason),
      drafts |-> draftsData,
      draftPicks |->
        [id \in {draftsData[i].draft_id : i \in 1..Len(draftsData)} |->
           DraftPicksOf(id, shape)]]

\* (a failed roster, user or draft fetch answered as an empty array)
LoadSeasonFailuresAsEmpty(map, season, lg, shape, down) ==
  LET leagueIdForSeason == FindLeagueIdForSeason(season, lg)
      bundle == SeasonBundle(leagueIdForSeason, shape)
  IN IF leagueIdForSeason = 0 THEN map
     ELSE IF PicksThrow(down, bundle.drafts) THEN map
     ELSE (season :>
             [bundle EXCEPT
                !.rosters = IF Throws(down, "rosters", leagueIdForSeason)
                            THEN <<>> ELSE @,
                !.users = IF Throws(down, "users", leagueIdForSeason)
                          THEN <<>> ELSE @]) @@ map

\* One iteration of `for (const season of seasonsNeeded)`: the map with the
\* season's bundle, or the map as it was when the league id is null or a fetch
\* throws into the catch of the iteration.
LoadSeason(map, season, lg, shape, down) ==
  LET leagueIdForSeason == FindLeagueIdForSeason(season, lg)
  IN IF leagueIdForSeason = 0 THEN map
     ELSE IF \/ Throws(down, "rosters", leagueIdForSeason)
             \/ Throws(down, "users", leagueIdForSeason)
             \/ Throws(down, "drafts", leagueIdForSeason)
     THEN map
     ELSE IF PicksThrow(down, SeasonDrafts(leagueIdForSeason, shape)) THEN map
     ELSE (season :> SeasonBundle(leagueIdForSeason, shape)) @@ map

\* --------------------------------------------------------- formatDraftPick
RoundSuffix(round) ==
  CASE round = 1 -> "st" [] round = 2 -> "nd" [] round = 3 -> "rd" [] OTHER -> "th"

\* Number.prototype.toString: the decimal digits of a natural number
RECURSIVE Digits(_)
Digits(n) == IF n < 10 THEN <<n>> ELSE Append(Digits(n \div 10), n % 10)

\* padStart(2, '0')
PadStart2(digits) == IF Len(digits) < 2 THEN <<0>> \o digits ELSE digits

\* parseInt of a string of digits
RECURSIVE ParseInt(_)
ParseInt(digits) ==
  IF digits = <<>> THEN 0
  ELSE 10 * ParseInt(SubSeq(digits, 1, Len(digits) - 1)) + digits[Len(digits)]

\* `${pick.round}.${pickInRound.toString().padStart(2, '0')}`: the texts on
\* either side of the dot
PickNumberText(round, pickInRound) ==
  [round |-> Digits(round), pickInRound |-> PadStart2(Digits(pickInRound))]

\* the player directory knows the players of odd id
PlayerDirectory == {id \in 1..(300 + NumRounds * NumRosters) : id % 2 = 1}

\* getPlayerName
GetPlayerName(playerId) ==
  IF playerId \in PlayerDirectory
  THEN "Name" \o ToString(playerId) \o " (QB)"
  ELSE "Player " \o ToString(playerId)

\* the comparator of calculateRankFromRecord
RosterBefore(a, b) ==
  IF Setting(b, "wins") # Setting(a, "wins")
  THEN Setting(b, "wins") - Setting(a, "wins") < 0
  ELSE Setting(b, "fpts") - Setting(a, "fpts") < 0

\* [...allRosters].sort(comparator): stable
RECURSIVE InsertRoster(_, _)
InsertRoster(sorted, roster) ==
  IF sorted = <<>> THEN <<roster>>
  ELSE IF RosterBefore(roster, sorted[Len(sorted)])
  THEN Append(InsertRoster(SubSeq(sorted, 1, Len(sorted) - 1), roster),
              sorted[Len(sorted)])
  ELSE Append(sorted, roster)

RECURSIVE SortRosters(_)
SortRosters(rosters) ==
  IF rosters = <<>> THEN <<>>
  ELSE InsertRoster(SortRosters(SubSeq(rosters, 1, Len(rosters) - 1)),
                    rosters[Len(rosters)])

\* calculateRankFromRecord: findIndex(...) + 1
CalculateRankFromRecord(roster, allRosters) ==
  FindRoster(SortRosters(allRosters), roster.roster_id)

\* standingsData.users.find(u => u.user_id === ownerId), as an index
FindUser(users, userId) ==
  IF \E i \in 1..Len(users) : users[i].user_id = userId
  THEN CHOOSE i \in 1..Len(users) :
         users[i].user_id = userId /\ \A j \in 1..(i - 1) : users[j].user_id # userId
  ELSE 0

\* `if (originalOwnerId) { ... }`: originalOwnerName and inferredPickNumber
InferPickNumber(round, originalOwnerId, standingsData) ==
  LET unknown == [originalOwnerName |-> "Unknown", inferredPickNumber |-> <<>>]
      r == FindRoster(standingsData.rosters, originalOwnerId)
      u == FindUser(standingsData.users, standingsData.rosters[r].owner_id)
      originalUser == standingsData.users[u]
      finalRank == CalculateRankFromRecord(standingsData.rosters[r],
                                           standingsData.rosters)
      totalTeams == Len(standingsData.rosters)
      pickInRound == totalTeams - finalRank + 1
  IN IF originalOwnerId = 0 THEN unknown
     ELSE IF r = 0 THEN unknown
     ELSE IF u = 0 THEN unknown
     ELSE [originalOwnerName |->
             IF originalUser.display_name # "" THEN originalUser.display_name
             ELSE originalUser.username,
           inferredPickNumber |-> PickNumberText(round, pickInRound)]

\* draftPicksForSeason.find(p => p.pick_no === overallPickNumber), as an index
FindPick(picks, pickNo) ==
  IF \E i \in 1..Len(picks) : picks[i].pick_no = pickNo
  THEN CHOOSE i \in 1..Len(picks) :
         picks[i].pick_no = pickNo /\ \A j \in 1..(i - 1) : picks[j].pick_no # pickNo
  ELSE 0

\* the player of the pick numbered overallPickNumber in a pick list, "" if none
PlayerOfPick(draftPicksForSeason, inferredPickNumber, totalTeams) ==
  LET roundNum == ParseInt(inferredPickNumber.round)
      pickInRound == ParseInt(inferredPickNumber.pickInRound)
      overallPickNumber == ((roundNum - 1) * totalTeams) + pickInRound
      selectedPick == FindPick(draftPicksForSeason, overallPickNumber)
  IN IF Len(draftPicksForSeason) > 0 /\ selectedPick # 0
        /\ draftPicksForSeason[selectedPick].player_id # 0
     THEN GetPlayerName(draftPicksForSeason[selectedPick].player_id)
     ELSE ""

\* (the draft of the latest loaded season used when the pick's season has none)
SelectedPlayerOfAnyDraft(data, pickSeason, inferredPickNumber, totalTeams) ==
  LET drafted == {y \in DOMAIN data : Len(data[y].drafts) > 0}
      latest == CHOOSE y \in drafted : \A z \in drafted : z <= y
  IN IF drafted = {} \/ inferredPickNumber = <<>> THEN ""
     ELSE PlayerOfPick(data[latest].draftPicks[data[latest].drafts[1].draft_id],
                       inferredPickNumber, totalTeams)

\* (the overall pick number counted with the teams of the pick's own season)
SelectedPlayerByPickSeasonTeams(data, pickSeason, inferredPickNumber, totalTeams) ==
  IF pickSeason \in DOMAIN data /\ Len(data[pickSeason].drafts) > 0
     /\ inferredPickNumber # <<>>
  THEN PlayerOfPick(data[pickSeason].draftPicks[data[pickSeason].drafts[1].draft_id],
                    inferredPickNumber, Len(data[pickSeason].rosters))
  ELSE ""

\* `if (pickSeasonData && pickSeasonData.drafts.length > 0 && inferredPickNumber)`:
\* selectedPlayer
SelectedPlayer(data, pickSeason, inferredPickNumber, totalTeams) ==
  IF pickSeason \in DOMAIN data /\ Len(data[pickSeason].drafts) > 0
     /\ inferredPickNumber # <<>>
  THEN LET draft == data[pickSeason].drafts[1]
           draftPicksForSeason ==
             IF draft.draft_id \in DOMAIN data[pickSeason].draftPicks
             THEN data[pickSeason].draftPicks[draft.draft_id] ELSE <<>>
       IN PlayerOfPick(draftPicksForSeason, inferredPickNumber, totalTeams)
  ELSE ""

\* The label texts: `${pickSeason} ${pick.round}${roundSuffix} Round Pick`
\* followed by nothing, `(${inferredPickNumber})`, `(... - from ${owner})` or
\* `(... - ${selectedPlayer})`.
Label(pick, slot, detail) ==
  [season |-> pick.season, round |-> pick.round, suffix |-> RoundSuffix(pick.round),
   slot |-> slot, detail |-> detail]

\* (a first slot shown when the draft order is unknown)
RoundLabelWithFirstSlot(pick) == Label(pick, PickNumberText(pick.round, 1), <<>>)

RoundOnlyLabel(pick) == Label(pick, <<>>, <<>>)

\* the final if / else if chain
FormatLabel(pick, inferredPickNumber, originalOwnerName, selectedPlayer) ==
  IF selectedPlayer # "" /\ inferredPickNumber # <<>>
  THEN Label(pick, inferredPickNumber, <<"player", selectedPlayer>>)
  ELSE IF inferredPickNumber # <<>> /\ originalOwnerName # "Unknown"
  THEN Label(pick, inferredPickNumber, <<"from", originalOwnerName>>)
  ELSE IF inferredPickNumber # <<>>
  THEN Label(pick, inferredPickNumber, <<>>)
  ELSE RoundOnlyLabel(pick)

\* pick.original_owner || pick.previous_owner_id
OriginalOwnerId(pick) ==
  IF pick.original_owner # 0 THEN pick.original_owner ELSE pick.previous_owner_id

FormatDraftPick(pick, data) ==
  LET pickSeason == pick.season
      standingsSeasonForDraft == pickSeason - 1
  IN IF \/ standingsSeasonForDraft \notin DOMAIN data
        \/ Len(data[standingsSeasonForDraft].rosters) = 0
     THEN RoundOnlyLabel(pick)
     ELSE LET standingsData == data[standingsSeasonForDraft]
              inferred == InferPickNumber(pick.round, OriginalOwnerId(pick),
                                          standingsData)
          IN FormatLabel(pick, inferred.inferredPickNumber,
                         inferred.originalOwnerName,
                         SelectedPlayer(data, pickSeason, inferred.inferredPickNumber,
                                        Len(standingsData.rosters)))

\* ------------------------------------------------------ traded draft picks
PickRef(season, round, originalOwner, previousOwner, rosterId) ==
  [season |-> season, round |-> round, original_owner |-> originalOwner,
   previous_owner_id |-> previousOwner, roster_id |-> rosterId]

\* picks naming roster 1 as original owner and roster 2 as previous owner,
\* roster 2 as previous owner only, no owner but the pick's own roster 1, the
\* last roster, or a roster that is not in the league
PickRefs ==
  {PickRef(season, round, owners[1], owners[2], owners[3]) :
     season \in PickSeasons, round \in 1..NumRounds,
     owners \in {<<1, 2, NumRosters>>, <<0, 2, 1>>, <<0, 0, 1>>,
                 <<NumRosters, 0, NumRosters>>,
                 <<NumRosters + 1, 0, NumRosters + 1>>}}

\* the selector before it is mounted
NoSelector ==
  /\ league = LeagueOf({EarliestSeason + 1}, {})
  /\ tradedPicks = <<>>
  /\ draftShape = "none"
  /\ outage = {}
  /\ currentYear = EarliestSeason + 1
  /\ seasonsNeeded = <<>>
  /\ crossSeasonDataMap = <<>>
  /\ crossSeasonData = <<>>
  /\ resolved = <<>>
  /\ loaderPc = "unmounted"
  /\ shownPick = <<>>
  /\ label = <<>>

\* ============================================================ trade simulator
\* the simulator as its useState calls leave it
NoSimulator ==
  /\ selectedTrades = <<>>
  /\ simulationResult = <<>>
  /\ simulating = FALSE
  /\ resultTrades = <<>>
  /\ clearedSinceRun = FALSE

\* The league's trades as getAllTrades lists them: player 1, then player 2, goes
\* from roster 2 to roster 1.
LeagueTrades ==
  <<TradeOf(1, (1 :> 2), (1 :> 1)) @@ [transaction_id |-> 1],
    TradeOf(2, (2 :> 2), (2 :> 1)) @@ [transaction_id |-> 2]>>

\* handleTradeToggle
ToggleTrade(selected, tradeId) ==
  IF Includes(selected, tradeId) THEN Without(selected, tradeId)
  ELSE Append(selected, tradeId)

\* trades.filter(trade => selectedTrades.includes(trade.transaction_id))
SelectedTradeObjects(tradeArray, selected) ==
  SelectSeq(tradeArray, LAMBDA trade : Includes(selected, trade.transaction_id))

\* -------------------------------------------------------------- the engine
Fresh ==
  /\ originalRosters = 1
  /\ heap = (1 :> givenRosters)
  /\ allMatchups = <<>>
  /\ tradesToUndo = <<>>
  /\ sortedTrades = <<>>
  /\ alternateRosters = 0
  /\ originalStandings = <<>>
  /\ simulatedMatchups = <<>>
  /\ simulatedStandings = <<>>
  /\ weeklyImpact = <<>>
  /\ affectedTeams = <<>>
  /\ pc = "idle"

\* The league of the spec's scenario week: roster 1 scores 100 with player 1 worth
\* 20 in its box score, roster 2 scores 90.
ScenarioWeek ==
  <<[roster_id |-> 1, matchup_id |-> 1, points |-> 100000,
     players_points |-> (1 :> 20000)],
    [roster_id |-> 2, matchup_id |-> 1, points |-> 90000,
     players_points |-> <<>>]>>

\* Rosters and trades vary; the provider answers week 1 with the scenario week and
\* every later week with nothing. An empty roster array is a failed roster fetch.
Init ==
  /\ givenRosters \in RosterArrays({NoSettings}) \cup {ScenarioRosters, <<>>}
  /\ trades = TradesMoving(MaxMoves, 1..MaxTime)
  /\ leagueMatchups = [w \in Weeks |-> IF w = 1 THEN ScenarioWeek ELSE <<>>]
  /\ Fresh
  /\ NoSelector
  /\ NoSimulator

\* simulateUndoTrades, up to the await of getAllMatchups
SimulateUndoTrades(tradeList) ==
  /\ pc = "idle"
  /\ tradesToUndo' = tradeList
  /\ allMatchups' = GetAllMatchups(leagueMatchups)
  /\ pc' = "createAlternateRosters"
  /\ UNCHANGED <<selectorVars, simulatorVars>>
  /\ UNCHANGED <<heap, originalRosters, givenRosters, trades, leagueMatchups,
                 sortedTrades, alternateRosters, originalStandings,
                 simulatedMatchups, simulatedStandings, weeklyImpact, affectedTeams>>

\* createAlternateRosters: the copy and the sort
CreateAlternateRosters ==
  /\ pc = "createAlternateRosters"
  /\ heap' = JsonCopy(heap, originalRosters).heap
  /\ alternateRosters' = JsonCopy(heap, originalRosters).ref
  /\ sortedTrades' = SortTrades(tradesToUndo)
  /\ pc' = "undoTrade"
  /\ UNCHANGED <<selectorVars, simulatorVars>>
  /\ UNCHANGED <<originalRosters, givenRosters, trades, leagueMatchups, allMatchups,
                 tradesToUndo, originalStandings, simulatedMatchups,
                 simulatedStandings, weeklyImpact, affectedTeams>>

\* one iteration of sortedTrades.forEach(trade => this.undoTrade(alternateRosters, trade))
UndoNextTrade ==
  /\ pc = "undoTrade"
  /\ sortedTrades # <<>>
  /\ heap' = [heap EXCEPT ![alternateRosters] = UndoTrade(@, Head(sortedTrades))]
  /\ sortedTrades' = Tail(sortedTrades)
  /\ UNCHANGED <<selectorVars, simulatorVars>>
  /\ UNCHANGED <<originalRosters, givenRosters, trades, leagueMatchups, allMatchups,
                 tradesToUndo, alternateRosters, originalStandings, simulatedMatchups,
                 simulatedStandings, weeklyImpact, affectedTeams, pc>>

\* createAlternateRosters returns; originalStandings = calculateStandings(originalRosters)
CalculateOriginalStandings ==
  /\ pc = "undoTrade"
  /\ sortedTrades = <<>>
  /\ originalStandings' = CalculateStandings(heap[originalRosters])
  /\ pc' = "simulateMatchups"
  /\ UNCHANGED <<selectorVars, simulatorVars>>
  /\ UNCHANGED <<heap, originalRosters, givenRosters, trades, leagueMatchups,
                 allMatchups, tradesToUndo, sortedTrades, alternateRosters,
                 simulatedMatchups, simulatedStandings, weeklyImpact, affectedTeams>>

SimulateMatchups ==
  /\ pc = "simulateMatchups"
  /\ simulatedMatchups' =
       SimulateMatchupsWithAlternateRosters(allMatchups, heap[alternateRosters],
                                            heap[originalRosters])
  /\ pc' = "calculateStandingsFromMatchups"
  /\ UNCHANGED <<selectorVars, simulatorVars>>
  /\ UNCHANGED <<heap, originalRosters, givenRosters, trades, leagueMatchups,
                 allMatchups, tradesToUndo, sortedTrades, alternateRosters,
                 originalStandings, simulatedStandings, weeklyImpact, affectedTeams>>

\* calculateStandingsFromMatchups returns
CalculateSimulatedStandings ==
  /\ pc = "calculateStandingsFromMatchups"
  /\ ~CalculateStandingsFromMatchups(simulatedMatchups, heap[alternateRosters]).threw
  /\ simulatedStandings' =
       CalculateStandingsFromMatchups(simulatedMatchups, heap[alternateRosters]).standings
  /\ pc' = "calculateWeeklyImpact"
  /\ UNCHANGED <<selectorVars, simulatorVars>>
  /\ UNCHANGED <<heap, originalRosters, givenRosters, trades, leagueMatchups,
                 allMatchups, tradesToUndo, sortedTrades, alternateRosters,
                 originalStandings, simulatedMatchups, weeklyImpact, affectedTeams>>

\* calculateStandingsFromMatchups throws: the promise of simulateUndoTrades rejects
StandingsThrow ==
  /\ pc = "calculateStandingsFromMatchups"
  /\ CalculateStandingsFromMatchups(simulatedMatchups, heap[alternateRosters]).threw
  /\ pc' = "rejected"
  /\ UNCHANGED <<selectorVars, simulatorVars>>
  /\ UNCHANGED <<heap, originalRosters, givenRosters, trades, leagueMatchups,
                 allMatchups, tradesToUndo, sortedTrades, alternateRosters,
                 originalStandings, simulatedMatchups, simulatedStandings,
                 weeklyImpact, affectedTeams>>

\* calculateWeeklyImpact, getAffectedTeams and the return of the result
ReturnResult ==
  /\ pc = "calculateWeeklyImpact"
  /\ weeklyImpact' = CalculateWeeklyImpact(simulatedMatchups, allMatchups)
  /\ affectedTeams' = GetAffectedTeams(tradesToUndo)
  /\ pc' = "done"
  /\ UNCHANGED <<selectorVars, simulatorVars>>
  /\ UNCHANGED <<heap, originalRosters, givenRosters, trades, leagueMatchups,
                 allMatchups, tradesToUndo, sortedTrades, alternateRosters,
                 originalStandings, simulatedMatchups, simulatedStandings>>

Next ==
  \/ \E tradeList \in TradeLists(trades) : SimulateUndoTrades(tradeList)
  \/ CreateAlternateRosters
  \/ UndoNextTrade
  \/ CalculateOriginalStandings
  \/ SimulateMatchups
  \/ CalculateSimulatedStandings
  \/ StandingsThrow
  \/ ReturnResult

Spec == Init /\ [][Next]_vars

\* ------------------------------------------------- point data of a week
\* box scores: any of the players, each with a negative or a positive score
BoxScores == UNION {[scored -> {0 - 3000, 20000}] : scored \in SUBSET Players}

\* a week in which roster 1 meets roster 2, who scores 90 with an empty box score
WeekOf(points1, box1) ==
  <<[roster_id |-> 1, matchup_id |-> 1, points |-> points1, players_points |-> box1],
    [roster_id |-> 2, matchup_id |-> 1, points |-> 90000, players_points |-> <<>>]>>

\* a week in which roster 1 has a bye (no matchup entry shares its matchup_id)
ByeWeek(points1) ==
  <<[roster_id |-> 1, matchup_id |-> 1, points |-> points1, players_points |-> <<>>]>>

PointWeeks ==
  {WeekOf(points1, box1) : points1 \in {0 - 1500, 15005, 100000}, box1 \in BoxScores}
    \cup {ByeWeek(0 - 1500)}

\* Point data varies: week 1 is any of PointWeeks, later weeks are not answered;
\* the trades are those of one player move at time 1 between rosters 1 and 2.
InitPoints ==
  /\ givenRosters \in RosterArrays({NoSettings}) \cup {ScenarioRosters, <<>>}
  /\ trades = {t \in TradesMoving(1, {1}) : t.roster_ids = <<1, 2>> /\ DOMAIN t.adds # {}}
  /\ leagueMatchups \in {[w \in Weeks |-> IF w = 1 THEN week ELSE <<>>] : week \in PointWeeks}
  /\ Fresh
  /\ NoSelector
  /\ NoSimulator

SpecPoints == InitPoints /\ [][Next]_vars

\* ------------------------------------------------ season records of rosters
\* roster.settings with wins and fpts present or missing (-1 stands for missing)
MakeSettings(wins, fpts) ==
  [field \in {"losses", "ties", "fpts_against"}
             \cup (IF wins >= 0 THEN {"wins"} ELSE {})
             \cup (IF fpts >= 0 THEN {"fpts"} ELSE {}) |->
     CASE field = "wins" -> wins
       [] field = "fpts" -> fpts
       [] OTHER -> 0]

SettingsChoices ==
  [RosterIds -> {MakeSettings(wins, fpts) :
                   wins \in {0 - 1, 1, 2}, fpts \in {0 - 1, 100000, 100500}}]

\* every player on the roster of the same number
HomePlacement == [p \in Players |-> IF p \in RosterIds THEN p ELSE 0]

\* weeks in which roster 1 meets roster 2 and then roster 2 meets roster 3
RankWeeks ==
  {<<WeekOf(a, <<>>),
     <<[roster_id |-> 2, matchup_id |-> 1, points |-> b, players_points |-> <<>>],
       [roster_id |-> 3, matchup_id |-> 1, points |-> c, players_points |-> <<>>]>>>> :
     a \in {89996, 90000, 100000}, b \in {0, 90004, 100000}, c \in {0, 90000, 95000}}

\* Season records vary, with the scenario week answered or no week answered at
\* all, or the weeks' points vary with empty season records and any of the two
\* weeks' fetches failing; the trades move player 1 between rosters 1 and 2.
InitRank ==
  /\ \/ /\ givenRosters \in {RosterArray(HomePlacement, settings) :
                               settings \in SettingsChoices} \cup {<<>>}
        /\ leagueMatchups \in {[w \in Weeks |-> IF w = 1 THEN ScenarioWeek ELSE <<>>],
                               [w \in Weeks |-> <<>>]}
     \/ /\ givenRosters = RosterArray(HomePlacement, NoSettings)
        /\ leagueMatchups \in
             {[w \in Weeks |-> IF w \in answered THEN weeks[w] ELSE <<>>] :
                weeks \in RankWeeks, answered \in SUBSET {1, 2}}
  /\ trades = {t \in TradesMoving(1, {1}) : t.roster_ids = <<1, 2>> /\ 1 \in DOMAIN t.adds}
  /\ Fresh
  /\ NoSelector
  /\ NoSimulator

SpecRank == InitRank /\ [][Next]_vars

\* ------------------------------------------------------ pairings of a week
\* the ways the provider groups the entries of rosters 1, 2 and 3 by matchup_id:
\* a pairing and a bye, in either order or interleaved, one group of three,
\* three byes
PairingShapes == {<<1, 1, 2>>, <<2, 1, 1>>, <<1, 2, 1>>, <<1, 1, 1>>, <<1, 2, 3>>}

\* a week of three entries; player 1 is worth 20 in the box score of roster 1
PairingWeek(shape, points1, points3) ==
  <<[roster_id |-> 1, matchup_id |-> shape[1], points |-> points1,
     players_points |-> (1 :> 20000)],
    [roster_id |-> 2, matchup_id |-> shape[2], points |-> 90000,
     players_points |-> <<>>],
    [roster_id |-> 3, matchup_id |-> shape[3], points |-> points3,
     players_points |-> <<>>]>>

PairingWeeks ==
  {PairingWeek(shape, points1, points3) :
     shape \in PairingShapes, points1 \in {90000, 110000}, points3 \in {90000, 95005}}

\* The pairings of weeks 1 and 2 vary, with every player on the roster of the
\* same number or the roster fetch failed; the trades move player 1 between
\* rosters 1 and 2.
InitPairings ==
  /\ givenRosters \in {RosterArray(HomePlacement, NoSettings), <<>>}
  /\ leagueMatchups \in
       {[w \in Weeks |-> IF w \in {1, 2} THEN weeks[w] ELSE <<>>] :
          weeks \in PairingWeeks \X PairingWeeks}
  /\ trades = {t \in TradesMoving(1, {1}) : t.roster_ids = <<1, 2>> /\ 1 \in DOMAIN t.adds}
  /\ Fresh
  /\ NoSelector
  /\ NoSimulator

SpecPairings == InitPairings /\ [][Next]_vars

\* ==================================================== trade selector: steps
\* the state of a mounted selector before its effect runs
Mounted ==
  /\ seasonsNeeded = <<>>
  /\ crossSeasonDataMap = <<>>
  /\ crossSeasonData = <<>>
  /\ resolved = <<>>
  /\ loaderPc = "mounted"
  /\ shownPick = <<>>
  /\ label = <<>>

\* The engine is left idle. Either two picks of the first and the last pick
\* season are traded while the league, its drafts and the failing endpoints
\* vary, or one pick of any kind is traded while the league, its drafts and the
\* calendar year vary.
InitSelector ==
  /\ givenRosters = <<>>
  /\ trades = {}
  /\ leagueMatchups = [w \in Weeks |-> <<>>]
  /\ Fresh
  /\ league \in Leagues
  /\ draftShape \in DraftShapes
  /\ \/ /\ tradedPicks = <<PickRef(EarliestSeason + 1, 1, 1, 0, 1),
                           PickRef(EarliestSeason + NumYears, NumRounds, 0, 2, 2)>>
        /\ outage \in Outages
        /\ currentYear = EarliestSeason + NumYears - 1
     \/ /\ tradedPicks \in {<<pick>> : pick \in PickRefs}
        /\ outage = {}
        /\ currentYear \in KnownYears \cup {EarliestSeason + NumYears}
  /\ Mounted
  /\ NoSimulator

\* loadDraftData up to the for loop of loadCrossSeasonData
LoadDraftData ==
  /\ loaderPc = "mounted"
  /\ seasonsNeeded' = SeasonsNeeded(<<>>, tradedPicks)
  /\ crossSeasonDataMap' = <<>>
  /\ loaderPc' = "loading"
  /\ UNCHANGED <<league, tradedPicks, draftShape, outage, currentYear,
                 crossSeasonData, resolved, shownPick, label>>
  /\ UNCHANGED <<engineVars, simulatorVars>>

\* one iteration of `for (const season of seasonsNeeded)`
LoadNextSeason ==
  /\ loaderPc = "loading"
  /\ seasonsNeeded # <<>>
  /\ resolved' = (Head(seasonsNeeded) :>
                    FindLeagueIdForSeason(Head(seasonsNeeded), league)) @@ resolved
  /\ crossSeasonDataMap' =
       LoadSeason(crossSeasonDataMap, Head(seasonsNeeded), league, draftShape, outage)
  /\ seasonsNeeded' = Tail(seasonsNeeded)
  /\ UNCHANGED <<league, tradedPicks, draftShape, outage, currentYear,
                 crossSeasonData, loaderPc, shownPick, label>>
  /\ UNCHANGED <<engineVars, simulatorVars>>

\* setCrossSeasonData(crossSeasonDataMap) and setDraftsLoaded(true): the state
\* change makes the component render again, which discards the labels of the
\* render before
SetCrossSeasonData ==
  /\ loaderPc = "loading"
  /\ seasonsNeeded = <<>>
  /\ crossSeasonData' = crossSeasonDataMap
  /\ loaderPc' = "loaded"
  /\ shownPick' = <<>>
  /\ label' = <<>>
  /\ UNCHANGED <<league, tradedPicks, draftShape, outage, currentYear,
                 seasonsNeeded, crossSeasonDataMap, resolved>>
  /\ UNCHANGED <<engineVars, simulatorVars>>

\* a render calls formatDraftPick on a traded pick
ShowDraftPick(pick) ==
  /\ loaderPc \in {"mounted", "loading", "loaded"}
  /\ shownPick' = pick
  /\ label' = FormatDraftPick(pick, crossSeasonData)
  /\ UNCHANGED <<league, tradedPicks, draftShape, outage, currentYear,
                 seasonsNeeded, crossSeasonDataMap, crossSeasonData, resolved,
                 loaderPc>>
  /\ UNCHANGED <<engineVars, simulatorVars>>

NextSelector ==
  \/ LoadDraftData
  \/ LoadNextSeason
  \/ SetCrossSeasonData
  \/ \E i \in 1..Len(tradedPicks) : ShowDraftPick(tradedPicks[i])

SpecSelector == InitSelector /\ [][NextSelector]_vars

\* =================================================== trade simulator: steps
\* The selector is left unmounted; the rosters are the scenario's or a failed
\* fetch, week 1 is the scenario week.
InitSimulator ==
  /\ givenRosters \in {ScenarioRosters, <<>>}
  /\ trades = Elems(LeagueTrades)
  /\ leagueMatchups = [w \in Weeks |-> IF w = 1 THEN ScenarioWeek ELSE <<>>]
  /\ Fresh
  /\ NoSelector
  /\ NoSimulator

\* the engine is between runs or awaits getAllMatchups: the page takes events
TakesEvents == pc \in {"idle", "createAlternateRosters"}

\* a checkbox of the selector: handleTradeToggle, then handleTradeSelection
HandleTradeSelection(tradeId) ==
  /\ TakesEvents
  /\ selectedTrades' = ToggleTrade(selectedTrades, tradeId)
  /\ UNCHANGED <<simulationResult, simulating, resultTrades, clearedSinceRun>>
  /\ UNCHANGED <<engineVars, selectorVars>>

\* runSimulation up to the await inside simulateUndoTrades: a new engine over
\* the rosters, called with the selected trades
RunSimulation ==
  /\ pc = "idle"
  /\ ~simulating
  /\ Len(selectedTrades) # 0
  /\ simulating' = TRUE
  /\ clearedSinceRun' = FALSE
  /\ originalRosters' = 1
  /\ heap' = (1 :> givenRosters)
  /\ tradesToUndo' = SelectedTradeObjects(LeagueTrades, selectedTrades)
  /\ allMatchups' = GetAllMatchups(leagueMatchups)
  /\ sortedTrades' = <<>>
  /\ alternateRosters' = 0
  /\ originalStandings' = <<>>
  /\ simulatedMatchups' = <<>>
  /\ simulatedStandings' = <<>>
  /\ weeklyImpact' = <<>>
  /\ affectedTeams' = <<>>
  /\ pc' = "createAlternateRosters"
  /\ UNCHANGED <<givenRosters, trades, leagueMatchups>>
  /\ UNCHANGED <<selectedTrades, simulationResult, resultTrades>>
  /\ UNCHANGED selectorVars

\* setSimulationResult(result) and the finally block
SetSimulationResult ==
  /\ pc = "done"
  /\ simulationResult' = [originalStandings |-> originalStandings,
                          simulatedStandings |-> simulatedStandings,
                          weeklyImpact |-> weeklyImpact,
                          affectedTeams |-> affectedTeams]
  /\ resultTrades' = tradesToUndo
  /\ simulating' = FALSE
  /\ pc' = "idle"
  /\ UNCHANGED <<heap, originalRosters, givenRosters, trades, leagueMatchups,
                 allMatchups, tradesToUndo, sortedTrades, alternateRosters,
                 originalStandings, simulatedMatchups, simulatedStandings,
                 weeklyImpact, affectedTeams>>
  /\ UNCHANGED <<selectedTrades, clearedSinceRun>>
  /\ UNCHANGED selectorVars

\* the catch of runSimulation and the finally block
CatchSimulationError ==
  /\ pc = "rejected"
  /\ simulating' = FALSE
  /\ pc' = "idle"
  /\ UNCHANGED <<heap, originalRosters, givenRosters, trades, leagueMatchups,
                 allMatchups, tradesToUndo, sortedTrades, alternateRosters,
                 originalStandings, simulatedMatchups, simulatedStandings,
                 weeklyImpact, affectedTeams>>
  /\ UNCHANGED <<selectedTrades, simulationResult, resultTrades, clearedSinceRun>>
  /\ UNCHANGED selectorVars

\* the Clear button, enabled with a selection or a result
ClearSimulation ==
  /\ TakesEvents
  /\ Len(selectedTrades) # 0 \/ simulationResult # <<>>
  /\ selectedTrades' = <<>>
  /\ simulationResult' = <<>>
  /\ clearedSinceRun' = TRUE
  /\ UNCHANGED <<simulating, resultTrades>>
  /\ UNCHANGED <<engineVars, selectorVars>>

NextSimulator ==
  \/ \E i \in 1..Len(LeagueTrades) : HandleTradeSelection(LeagueTrades[i].transaction_id)
  \/ RunSimulation
  \/ CreateAlternateRosters
  \/ UndoNextTrade
  \/ CalculateOriginalStandings
  \/ SimulateMatchups
  \/ CalculateSimulatedStandings
  \/ StandingsThrow
  \/ ReturnResult
  \/ SetSimulationResult
  \/ CatchSimulationError
  \/ ClearSimulation

SpecSimulator == InitSimulator /\ [][NextSimulator]_vars

\* ================================================================ claims
\* the alternate roster array, and whether the undo loop has visited every trade
Alt == heap[alternateRosters]
UndoFinished == alternateRosters # 0 /\ sortedTrades = <<>>

\* the trade with adds {P1: A} and drops {P1: B} of the spec's scenario
ScenarioTrade(trade) == trade.adds = (1 :> 1) /\ trade.drops = (1 :> 2)

\* how often a player occurs in an array
Occurrences(arr, x) == Cardinality({i \in 1..Len(arr) : arr[i] = x})

\* C1: after undoing a single trade, every player of its adds is off the receiving
\* roster's players and starters, every player of its drops is on the sending
\* roster's players exactly once, and a sending roster's starters are what they
\* were, less the players the trade's adds take off that roster; the scenario
\* rosters A=[P1,P2], B=[P3] become A=[P2], B=[P3,P1].
C1_UndoSingleTrade ==
  (UndoFinished /\ Len(tradesToUndo) = 1) =>
    LET trade == tradesToUndo[1]
    IN /\ \A p \in DOMAIN trade.adds :
            LET i == FindRoster(Alt, trade.adds[p])
            IN i # 0 => /\ ~Includes(Alt[i].players, p)
                        /\ ~Includes(Alt[i].starters, p)
       /\ \A p \in DOMAIN trade.drops :
            LET i == FindRoster(Alt, trade.drops[p])
            IN i # 0 =>
                 /\ Occurrences(Alt[i].players, p) = 1
                 /\ Alt[i].starters =
                      SelectSeq(givenRosters[i].starters,
                                LAMBDA q : ~(q \in DOMAIN trade.adds
                                             /\ trade.adds[q] = trade.drops[p]))
       /\ (givenRosters = ScenarioRosters /\ ScenarioTrade(trade)) =>
            /\ Alt[1].players = <<2>>
            /\ Alt[2].players = <<3, 1>>

\* C1 witness: the scenario trade has been undone on the scenario rosters
C1_Witness ==
  /\ pc = "done"
  /\ Len(tradesToUndo) = 1
  /\ ScenarioTrade(tradesToUndo[1])
  /\ givenRosters = ScenarioRosters
  /\ Alt[2].players = <<3, 1>>

\* C2: the array the engine was given is never changed by a simulation, and the
\* original standings of the result are those of the rosters as given.
C2_OriginalUntouched ==
  /\ heap[originalRosters] = givenRosters
  /\ pc = "done" => originalStandings = CalculateStandings(givenRosters)

\* C2 witness: a finished simulation whose alternate rosters differ from the given
C2_Witness ==
  /\ pc = "done"
  /\ Alt # givenRosters
  /\ heap[originalRosters] = givenRosters

\* C3: undoing <<t, t>> leaves the alternate rosters that undoing <<t>> leaves
C3_UndoIdempotent ==
  (UndoFinished /\ Len(tradesToUndo) = 2 /\ tradesToUndo[1] = tradesToUndo[2]) =>
    \A i \in 1..Len(Alt) :
      /\ Alt[i].players = UndoTrade(givenRosters, tradesToUndo[1])[i].players
      /\ Alt[i].starters = UndoTrade(givenRosters, tradesToUndo[1])[i].starters

\* C3 witness: a trade that changes the rosters has been undone twice
C3_Witness ==
  /\ UndoFinished
  /\ Len(tradesToUndo) = 2
  /\ tradesToUndo[1] = tradesToUndo[2]
  /\ \E p \in DOMAIN tradesToUndo[1].drops :
       /\ FindRoster(givenRosters, tradesToUndo[1].drops[p]) # 0
       /\ ~Includes(givenRosters[FindRoster(givenRosters, tradesToUndo[1].drops[p])].players, p)
       /\ Includes(Alt[FindRoster(Alt, tradesToUndo[1].drops[p])].players, p)

\* the rosters of an array that hold player p
HoldersOf(rosters, p) ==
  {rosters[i].roster_id : i \in {j \in 1..Len(rosters) : Includes(rosters[j].players, p)}}

\* the players of a roster after the trade is applied again: its adds put on,
\* its drops taken off
Reapplied(roster, trade) ==
  (Elems(roster.players) \cup {p \in DOMAIN trade.adds : trade.adds[p] = roster.roster_id})
    \ {p \in DOMAIN trade.drops : trade.drops[p] = roster.roster_id}

\* the trade's effect is still in place: each traded player is on the roster that
\* received them and not on the roster that sent them
TradeInEffect(rosters, trade) ==
  /\ \A p \in DOMAIN trade.adds :
       FindRoster(rosters, trade.adds[p]) # 0 =>
         Includes(rosters[FindRoster(rosters, trade.adds[p])].players, p)
  /\ \A p \in DOMAIN trade.drops :
       FindRoster(rosters, trade.drops[p]) # 0 =>
         ~Includes(rosters[FindRoster(rosters, trade.drops[p])].players, p)

\* no later trade moved a player of the trade on: none of them is held by a roster
\* other than the one that received them
NoLaterHop(rosters, trade) ==
  \A p \in DOMAIN trade.adds : HoldersOf(rosters, p) \subseteq {trade.adds[p]}

\* C4 as stated: a single undone trade whose players no later trade moved on,
\* applied again to the output of undo, gives every roster its original set of
\* players.
C4_Original ==
  (UndoFinished /\ Len(tradesToUndo) = 1 /\ NoLaterHop(givenRosters, tradesToUndo[1])) =>
    \A i \in 1..Len(Alt) :
      Reapplied(Alt[i], tradesToUndo[1]) = Elems(givenRosters[i].players)

\* C4 amended: the same, for rosters on which the trade's effect is still in place
C4_UndoReversible ==
  (UndoFinished /\ Len(tradesToUndo) = 1 /\ TradeInEffect(givenRosters, tradesToUndo[1])) =>
    \A i \in 1..Len(Alt) :
      Reapplied(Alt[i], tradesToUndo[1]) = Elems(givenRosters[i].players)

\* C4 witness: a trade in effect has been undone and the rosters changed
C4_Witness ==
  /\ UndoFinished
  /\ Len(tradesToUndo) = 1
  /\ DOMAIN tradesToUndo[1].adds # {}
  /\ givenRosters # <<>>
  /\ TradeInEffect(givenRosters, tradesToUndo[1])
  /\ Alt # givenRosters

\* the undone trades that move player p, as indices of tradesToUndo
MovesOf(p) == {i \in 1..Len(tradesToUndo) : p \in DOMAIN tradesToUndo[i].adds}

\* Player p changed hands more than once within the undone trades: these trades
\* are between rosters of the array and have distinct times, each but the earliest
\* sends p from the roster the one before it gave p to, and p is now held by the
\* latest receiver alone.
ChangedHands(p) ==
  /\ Cardinality(MovesOf(p)) >= 2
  /\ \A i \in MovesOf(p) :
       /\ FindRoster(givenRosters, tradesToUndo[i].adds[p]) # 0
       /\ FindRoster(givenRosters, tradesToUndo[i].drops[p]) # 0
  /\ \A i, j \in MovesOf(p) :
       i # j => tradesToUndo[i].status_updated # tradesToUndo[j].status_updated
  /\ \A i \in MovesOf(p) :
       (\E j \in MovesOf(p) : tradesToUndo[j].status_updated < tradesToUndo[i].status_updated)
         => \E j \in MovesOf(p) :
              /\ tradesToUndo[j].status_updated < tradesToUndo[i].status_updated
              /\ \A k \in MovesOf(p) :
                   ~(/\ tradesToUndo[j].status_updated < tradesToUndo[k].status_updated
                     /\ tradesToUndo[k].status_updated < tradesToUndo[i].status_updated)
              /\ tradesToUndo[j].adds[p] = tradesToUndo[i].drops[p]
  /\ \A i \in MovesOf(p) :
       (\A j \in MovesOf(p) : tradesToUndo[j].status_updated <= tradesToUndo[i].status_updated)
         => HoldersOf(givenRosters, p) = {tradesToUndo[i].adds[p]}

\* the roster that sent p in the earliest undone trade moving p
EarliestSender(p) ==
  LET i == CHOOSE k \in MovesOf(p) :
             \A j \in MovesOf(p) :
               tradesToUndo[k].status_updated <= tradesToUndo[j].status_updated
  IN tradesToUndo[i].drops[p]

MatchupsSimulated ==
  pc \in {"calculateStandingsFromMatchups", "calculateWeeklyImpact", "done", "rejected"}

\* the points a box score records for a set of players (none recorded: 0)
RECURSIVE BoxScoreTotal(_, _)
BoxScoreTotal(matchup, players) ==
  IF players = {} THEN 0
  ELSE LET p == CHOOSE q \in players : TRUE
       IN (IF p \in DOMAIN matchup.players_points THEN matchup.players_points[p] ELSE 0)
            + BoxScoreTotal(matchup, players \ {p})

\* the players the given roster array lists for a roster id
GivenPlayers(rosterId) ==
  IF FindRoster(givenRosters, rosterId) = 0 THEN {}
  ELSE Elems(givenRosters[FindRoster(givenRosters, rosterId)].players)

\* max(0, original points + gained players' points - lost players' points)
ExpectedPoints(matchup) ==
  LET alt == Elems(Alt[FindRoster(Alt, matchup.roster_id)].players)
      orig == GivenPlayers(matchup.roster_id)
      total == matchup.points + BoxScoreTotal(matchup, alt \ orig)
                 - BoxScoreTotal(matchup, orig \ alt)
  IN IF total < 0 THEN 0 ELSE total

\* the scenario: scenario rosters, scenario week, the scenario trade undone
ScenarioRun ==
  /\ givenRosters = ScenarioRosters
  /\ leagueMatchups[1] = ScenarioWeek
  /\ Len(tradesToUndo) = 1
  /\ ScenarioTrade(tradesToUndo[1])

\* C6: a matchup whose roster has an alternate roster gets max(0, points + gained
\* - lost) from its own box score; in the scenario A's 100 becomes 80, B keeps 90
\* and the result flips from an A win to a B win.
C6_SimulatedPoints ==
  /\ MatchupsSimulated =>
       \A week \in DOMAIN allMatchups :
         \A i \in 1..Len(allMatchups[week]) :
           FindRoster(Alt, allMatchups[week][i].roster_id) # 0 =>
             simulatedMatchups[week][i].points = ExpectedPoints(allMatchups[week][i])
  /\ (pc = "done" /\ ScenarioRun) =>
       /\ simulatedMatchups[1][1].points = 80000
       /\ simulatedMatchups[1][2].points = 90000
       /\ weeklyImpact[1].teamImpacts[1].originalResult = "W"
       /\ weeklyImpact[1].teamImpacts[1].simulatedResult = "L"
       /\ weeklyImpact[1].teamImpacts[1].difference = 0 - 20000
       /\ weeklyImpact[1].teamImpacts[2].originalResult = "L"
       /\ weeklyImpact[1].teamImpacts[2].simulatedResult = "W"

\* C6 witness: the scenario has run and A's week-1 total is 80
C6_Witness ==
  /\ pc = "done"
  /\ ScenarioRun
  /\ simulatedMatchups[1][1].points = 80000

\* C7 as stated: no re-simulated matchup has a negative total, passed through or not
C7_Original ==
  MatchupsSimulated =>
    \A week \in DOMAIN simulatedMatchups :
      \A i \in 1..Len(simulatedMatchups[week]) :
        simulatedMatchups[week][i].points >= 0

\* C7 amended: a matchup whose roster has an alternate roster has no negative
\* total; a matchup passed through is the original matchup, total included.
C7_NonNegative ==
  MatchupsSimulated =>
    \A week \in DOMAIN simulatedMatchups :
      \A i \in 1..Len(simulatedMatchups[week]) :
        IF FindRoster(Alt, allMatchups[week][i].roster_id) # 0
        THEN simulatedMatchups[week][i].points >= 0
        ELSE simulatedMatchups[week][i] = allMatchups[week][i]

\* C7 witness: the points lost with a player exceed the matchup's total, which
\* the alternate matchup shows as 0
C7_Witness ==
  /\ MatchupsSimulated
  /\ \E week \in DOMAIN simulatedMatchups :
       \E i \in 1..Len(simulatedMatchups[week]) :
         /\ FindRoster(Alt, allMatchups[week][i].roster_id) # 0
         /\ allMatchups[week][i].points > 0
         /\ allMatchups[week][i].points
              - BoxScoreTotal(allMatchups[week][i],
                              GivenPlayers(allMatchups[week][i].roster_id)
                                \ Elems(Alt[FindRoster(Alt, allMatchups[week][i].roster_id)].players))
              < 0
         /\ simulatedMatchups[week][i].points = 0

\* C8: with no trade to undo the simulated standings are the original standings,
\* entry for entry up to order, and no team is affected
C8_NoOpSimulation ==
  (pc = "done" /\ tradesToUndo = <<>>) =>
    /\ Elems(simulatedStandings) = Elems(originalStandings)
    /\ affectedTeams = <<>>

\* the roster of the given array with an id
GivenRoster(rosterId) == givenRosters[FindRoster(givenRosters, rosterId)]

\* adjacent entries are in order: more wins first, and on equal wins more points first
InStandingsOrder(standings) ==
  \A i \in 1..(Len(standings) - 1) :
    /\ standings[i].wins >= standings[i + 1].wins
    /\ standings[i].wins = standings[i + 1].wins =>
         standings[i].pointsFor >= standings[i + 1].pointsFor

\* C9: the original standings and the simulated standings are in standings order,
\* and an original entry shows 0 for each of wins and points-for that is missing
\* from the roster's settings
C9_StandingsOrder ==
  /\ pc \in {"simulateMatchups", "calculateStandingsFromMatchups",
             "calculateWeeklyImpact", "done", "rejected"} =>
       /\ InStandingsOrder(originalStandings)
       /\ \A i \in 1..Len(originalStandings) :
            LET settings == GivenRoster(originalStandings[i].rosterId).settings
            IN /\ originalStandings[i].wins =
                    (IF "wins" \in DOMAIN settings THEN settings["wins"] ELSE 0)
               /\ originalStandings[i].pointsFor =
                    (IF "fpts" \in DOMAIN settings THEN settings["fpts"] ELSE 0)
  /\ pc \in {"calculateWeeklyImpact", "done"} => InStandingsOrder(simulatedStandings)

\* C9 witness: both lists are there, both have two teams level on wins and apart
\* on points, and a roster without a wins field is listed
C9_Witness ==
  /\ pc = "done"
  /\ \E i \in 1..(Len(originalStandings) - 1) :
       /\ originalStandings[i].wins = originalStandings[i + 1].wins
       /\ originalStandings[i].pointsFor > originalStandings[i + 1].pointsFor
       /\ originalStandings[i].rosterId > originalStandings[i + 1].rosterId
  /\ \E i \in 1..Len(givenRosters) : "wins" \notin DOMAIN givenRosters[i].settings

\* C9 witness for the standings from matchups: level on wins, apart on points,
\* listed against the order of the roster array
C9_WitnessFromMatchups ==
  /\ pc = "done"
  /\ \E i \in 1..(Len(simulatedStandings) - 1) :
       /\ simulatedStandings[i].wins = simulatedStandings[i + 1].wins
       /\ simulatedStandings[i].pointsFor > simulatedStandings[i + 1].pointsFor
       /\ simulatedStandings[i].rosterId > simulatedStandings[i + 1].rosterId

\* a standings list has one entry per roster of the array and entry i has rank i
RanksArePositions(standings, rosters) ==
  /\ Len(standings) = Len(rosters)
  /\ \A r \in 1..Len(rosters) :
       Cardinality({i \in 1..Len(standings) : standings[i].rosterId = rosters[r].roster_id}) = 1
  /\ \A i \in 1..Len(standings) : standings[i].rank = i
  /\ {standings[i].rank : i \in 1..Len(standings)} = 1..Len(rosters)

\* C10: each standings list has one entry per roster and ranks 1..N by position
C10_RankPermutation ==
  /\ pc \in {"simulateMatchups", "calculateStandingsFromMatchups",
             "calculateWeeklyImpact", "done", "rejected"} =>
       RanksArePositions(originalStandings, givenRosters)
  /\ pc \in {"calculateWeeklyImpact", "done"} =>
       RanksArePositions(simulatedStandings, Alt)

\* C10 witness: rosters fully level on wins and points are ranked 1..N, and the
\* sort moved a roster of the array up to rank 1
C10_Witness ==
  /\ pc = "done"
  /\ Len(originalStandings) = NumRosters
  /\ Len(simulatedStandings) = NumRosters
  /\ \E i \in 1..(Len(originalStandings) - 1) :
       /\ originalStandings[i].wins = originalStandings[i + 1].wins
       /\ originalStandings[i].pointsFor = originalStandings[i + 1].pointsFor
  /\ originalStandings[1].rosterId # 1
  /\ \A i \in 1..NumRosters : originalStandings[i].rank = i

\* ---------------------------------------------------------------- C13
AnsweredWeeks == {w \in Weeks : Len(leagueMatchups[w]) > 0}

\* the roster ids the matchup entries of the answered weeks name
MatchupRosterIds ==
  UNION {{leagueMatchups[w][i].roster_id : i \in 1..Len(leagueMatchups[w])} :
           w \in AnsweredWeeks}

\* C13: a week whose matchup fetch fails is left out and nothing else changes:
\* once getAllMatchups has returned, allMatchups holds exactly the answered weeks;
\* the returned weeklyImpact lists exactly those weeks, each once, in ascending
\* order; and a run is rejected only over a roster id named by an answered week,
\* never over a failed fetch.
C13_FailedWeekOmitted ==
  /\ pc # "idle" => DOMAIN allMatchups = AnsweredWeeks
  /\ pc = "done" =>
       [k \in 1..Len(weeklyImpact) |-> weeklyImpact[k].week]
         = KeysAscending(AnsweredWeeks)
  /\ pc = "rejected" =>
       \E id \in MatchupRosterIds : FindRoster(givenRosters, id) = 0

C13_Witness ==
  /\ pc = "done"
  /\ leagueMatchups[1] = <<>>
  /\ leagueMatchups[2] # <<>>
  /\ Len(weeklyImpact) = 1
  /\ weeklyImpact[1].week = 2

\* ---------------------------------------------------------------- C18
\* C18: calculateStandingsFromMatchups never throws, and with no matchups every
\* given roster stands at zero wins, losses, ties, points for and points against.
C18_StandingsNeverThrow ==
  /\ pc # "rejected"
  /\ (pc = "done" /\ DOMAIN simulatedMatchups = {}) =>
       /\ Len(simulatedStandings) = Len(givenRosters)
       /\ \A i \in 1..Len(simulatedStandings) :
            /\ simulatedStandings[i].wins = 0
            /\ simulatedStandings[i].losses = 0
            /\ simulatedStandings[i].ties = 0
            /\ simulatedStandings[i].pointsFor = 0
            /\ simulatedStandings[i].pointsAgainst = 0

\* ---------------------------------------------------------------- C19
UndoneRosterIds ==
  UNION {Elems(tradesToUndo[i].roster_ids) : i \in 1..Len(tradesToUndo)}

\* C19: the returned affectedTeams lists, as strings and each once, exactly the
\* roster ids found in roster_ids of the undone trades.
C19_AffectedTeams ==
  pc = "done" =>
    /\ Elems(affectedTeams) = {ToString(id) : id \in UndoneRosterIds}
    /\ \A i, j \in 1..Len(affectedTeams) :
         affectedTeams[i] = affectedTeams[j] => i = j

\* two undone trades that share one roster and differ in the other
C19_Witness ==
  /\ pc = "done"
  /\ Len(tradesToUndo) = 2
  /\ Elems(tradesToUndo[1].roster_ids) \cap Elems(tradesToUndo[2].roster_ids) # {}
  /\ Elems(tradesToUndo[1].roster_ids) # Elems(tradesToUndo[2].roster_ids)
  /\ Len(affectedTeams) = 3

\* ---------------------------------------------------------------- C11
\* the seasons loadCrossSeasonData is to load
Requested == Elems(SeasonsNeeded(<<>>, tradedPicks))

\* a roster, user or draft fetch of the season's league fails
FetchFails(season) ==
  \E endpoint \in {"rosters", "users", "drafts"} : <<endpoint, resolved[season]>> \in outage

\* the drafts the provider holds for the season's league
ProviderDrafts(season) == SeasonDrafts(resolved[season], draftShape)

\* the picks fetch of one of the season's drafts fails
PicksFail(season) ==
  \E i \in 1..Len(ProviderDrafts(season)) :
    <<"picks", ProviderDrafts(season)[i].draft_id>> \in outage

\* C11: the loader tries every requested season whatever happened to the
\* seasons before it; the map it sets holds no bundle for a season whose league
\* id was not found or whose roster, user or draft fetch failed, and holds the
\* provider's rosters, users and drafts for every season that resolved and whose
\* fetches all answered.
C11_PartialFailure ==
  loaderPc = "loaded" =>
    /\ DOMAIN resolved = Requested
    /\ \A season \in DOMAIN crossSeasonData :
         /\ season \in Requested
         /\ resolved[season] # 0
         /\ ~FetchFails(season)
    /\ \A season \in Requested :
         (resolved[season] # 0 /\ ~FetchFails(season) /\ ~PicksFail(season)) =>
           /\ season \in DOMAIN crossSeasonData
           /\ crossSeasonData[season].rosters = SeasonRosters(resolved[season])
           /\ crossSeasonData[season].users = SeasonUsers(resolved[season])
           /\ crossSeasonData[season].drafts = ProviderDrafts(season)

\* four seasons requested: one not found, one with a failed fetch, two loaded
C11_Witness ==
  /\ loaderPc = "loaded"
  /\ Cardinality(Requested) = 4
  /\ \E season \in Requested : resolved[season] = 0
  /\ \E season \in Requested : resolved[season] # 0 /\ FetchFails(season)
  /\ Cardinality(DOMAIN crossSeasonData) = 2

\* ---------------------------------------------------------------- C12
\* C12: a season that resolved and whose rosters, users and drafts were fetched
\* has a bundle even when the picks of one of its drafts could not be fetched:
\* that draft has an empty pick list and every other draft its picks.
C12_EmptyPicksForFailedDraft ==
  loaderPc = "loaded" =>
    \A season \in Requested :
      (resolved[season] # 0 /\ ~FetchFails(season)) =>
        /\ season \in DOMAIN crossSeasonData
        /\ \A i \in 1..Len(ProviderDrafts(season)) :
             LET id == ProviderDrafts(season)[i].draft_id
             IN crossSeasonData[season].draftPicks[id] =
                  IF <<"picks", id>> \in outage THEN <<>>
                  ELSE DraftPicksOf(id, draftShape)

\* ---------------------------------------------------------------- C14
\* the text of a label, read off the returned value
RoundOnly(pick, text) ==
  /\ text.season = pick.season
  /\ text.round = pick.round
  /\ text.suffix = (CASE pick.round = 1 -> "st" [] pick.round = 2 -> "nd"
                      [] pick.round = 3 -> "rd" [] OTHER -> "th")
  /\ text.slot = <<>>
  /\ text.detail = <<>>

\* C14: for a pick whose standings season (pick season minus 1) has no bundle,
\* formatDraftPick returns the round-only label: no slot, no player.
C14_RoundOnlyWithoutStandings ==
  (shownPick # <<>> /\ shownPick.season - 1 \notin DOMAIN crossSeasonData) =>
    RoundOnly(shownPick, label)

\* the pick's own season is loaded with a draft and its picks, its standings
\* season is not, and the pick names an owner
C14_Witness ==
  /\ loaderPc = "loaded"
  /\ shownPick # <<>>
  /\ shownPick.original_owner = 1
  /\ shownPick.season - 1 \notin DOMAIN crossSeasonData
  /\ shownPick.season \in DOMAIN crossSeasonData
  /\ Len(crossSeasonData[shownPick.season].drafts) > 0
  /\ RoundOnly(shownPick, label)

\* ---------------------------------------------------------------- C15
\* seasonComplete: the season's year is strictly less than the current year
SeasonComplete(season) == season < currentYear

\* C15: when the standings season of a pick is not complete the label is
\* round-only, loaded rosters or not.
C15_RoundOnlyUntilSeasonComplete ==
  (shownPick # <<>> /\ ~SeasonComplete(shownPick.season - 1)) =>
    RoundOnly(shownPick, label)

\* ---------------------------------------------------------------- C16
\* no draft has occurred for a season, as far as the loaded data tells
NoDraftOccurred(season) ==
  \/ season \notin DOMAIN crossSeasonData
  \/ Len(crossSeasonData[season].drafts) = 0
  \/ Len(crossSeasonData[season].draftPicks[crossSeasonData[season].drafts[1].draft_id]) = 0

HasPlayer(text) == text.detail # <<>> /\ text.detail[1] = "player"

\* C16: the label of a pick for whose season no draft has occurred names no
\* player, whether the season is in the future or not.
C16_NoFabricatedPlayer ==
  (shownPick # <<>> /\ NoDraftOccurred(shownPick.season)) => ~HasPlayer(label)

\* a pick of a future season whose slot is resolved while an earlier season's
\* draft is loaded with its picks
C16_Witness ==
  /\ shownPick # <<>>
  /\ shownPick.season > currentYear
  /\ NoDraftOccurred(shownPick.season)
  /\ label.slot # <<>>
  /\ \E season \in DOMAIN crossSeasonData : ~NoDraftOccurred(season)
  /\ ~HasPlayer(label)

\* ---------------------------------------------------------------- C17
\* C17: a season that no entry of the league matches and that is later than the
\* most recent season resolves to the league id of the most recent season.
C17_FutureYearFallback ==
  \A season \in DOMAIN resolved :
    (FindSeason(league.seasons, season) = 0
       /\ season > league.mostRecentSeason.season) =>
      resolved[season] = league.mostRecentSeason.league_id

\* ---------------------------------------------------------------- C20
\* C20: a result on display is the result of undoing exactly the trades that
\* are selected now, so the trade count shown with it is the number of trades
\* that were undone to produce it.
C20_ResultOfSelectedTrades ==
  simulationResult # <<>> =>
    /\ resultTrades = SelectedTradeObjects(LeagueTrades, selectedTrades)
    /\ Len(selectedTrades) = Len(resultTrades)

\* ---------------------------------------------------------------- C21
\* the roster a pick names as its original owner, explicitly or as previous owner
NamedOwner(pick) ==
  IF pick.original_owner # 0 THEN pick.original_owner ELSE pick.previous_owner_id

\* the 1-based position of roster i among the rosters ordered by wins, then
\* points for, both descending
RecordRank(rosters, i) ==
  LET Wins(j) == rosters[j].settings.wins
      Fpts(j) == rosters[j].settings.fpts
      Ahead(j) == \/ Wins(j) > Wins(i)
                  \/ Wins(j) = Wins(i) /\ Fpts(j) > Fpts(i)
                  \/ Wins(j) = Wins(i) /\ Fpts(j) = Fpts(i) /\ j < i
  IN 1 + Cardinality({j \in 1..Len(rosters) : Ahead(j)})

\* the text "{round}.{slot zero-padded to 2 digits}" for a slot below 100 and a
\* round below 10
SlotText(round, slot) ==
  [round |-> <<round>>, pickInRound |-> <<slot \div 10, slot % 10>>]

\* C21: when the bundle of the standings year (pick season minus 1) is present
\* and holds the roster the pick names as original owner, the label carries the
\* slot totalTeams - rank + 1 of that roster, within 1..totalTeams, as
\* "{round}.{slot zero-padded to 2 digits}".
C21_SlotFromRank ==
  (shownPick # <<>> /\ shownPick.season - 1 \in DOMAIN crossSeasonData) =>
    LET rosters == crossSeasonData[shownPick.season - 1].rosters
        totalTeams == Len(rosters)
    IN \A i \in 1..totalTeams :
         rosters[i].roster_id = NamedOwner(shownPick) =>
           /\ totalTeams - RecordRank(rosters, i) + 1 \in 1..totalTeams
           /\ label.slot = SlotText(shownPick.round,
                                    totalTeams - RecordRank(rosters, i) + 1)

\* ---------------------------------------------------------------- C22
\* the slot a label shows, as a number
SlotOf(text) == 10 * text.slot.pickInRound[1] + text.slot.pickInRound[2]

\* the picks of the first draft of a season's bundle, <<>> without bundle or draft
LoadedPicks(season) ==
  IF season \in DOMAIN crossSeasonData /\ Len(crossSeasonData[season].drafts) > 0
  THEN crossSeasonData[season].draftPicks[crossSeasonData[season].drafts[1].draft_id]
  ELSE <<>>

\* the picks of the pick season's draft that carry the overall number
\* (round - 1) * totalTeamsInStandingsYear + slot and a player id
PicksAtSlot(pick, text) ==
  LET picks == LoadedPicks(pick.season)
      totalTeams == Len(crossSeasonData[pick.season - 1].rosters)
  IN {i \in 1..Len(picks) :
        /\ picks[i].pick_no = (pick.round - 1) * totalTeams + SlotOf(text)
        /\ picks[i].player_id # 0}

\* C22: when the pick season's draft has loaded picks and a slot was resolved,
\* the label names the player of the draft pick whose pick_no is
\* (round - 1) * totalTeamsInStandingsYear + slot, if that pick exists and has a
\* player id; in every other case the label names no player.
C22_PlayerAtOverallPick ==
  shownPick # <<>> =>
    IF label.slot # <<>> /\ PicksAtSlot(shownPick, label) # {}
    THEN \E i \in PicksAtSlot(shownPick, label) :
           label.detail =
             <<"player", GetPlayerName(LoadedPicks(shownPick.season)[i].player_id)>>
    ELSE ~HasPlayer(label)

\* a second-round pick is shown with its player while the standings year and
\* the pick season have different numbers of teams
C22_Witness ==
  /\ shownPick # <<>>
  /\ shownPick.round = 2
  /\ HasPlayer(label)
  /\ shownPick.season \in DOMAIN crossSeasonData
  /\ Len(crossSeasonData[shownPick.season].rosters)
       # Len(crossSeasonData[shownPick.season - 1].rosters)

\* ---------------------------------------------------------------- C23
\* the first populated field among original_owner, previous_owner_id, roster_id
FirstPopulatedOwner(pick) ==
  IF pick.original_owner # 0 THEN pick.original_owner
  ELSE IF pick.previous_owner_id # 0 THEN pick.previous_owner_id
  ELSE pick.roster_id

\* C23: a traded pick is resolved against the roster named by its first
\* populated field in the order original_owner, previous_owner_id, roster_id:
\* its label is the label of the same pick with that roster as explicit
\* original owner, also when only roster_id is populated.
C23_OwnerFieldOrder ==
  shownPick # <<>> =>
    label = FormatDraftPick(
              [shownPick EXCEPT !.original_owner = FirstPopulatedOwner(shownPick)],
              crossSeasonData)

\* ---------------------------------------------------------------- C24
\* the entries of the league for a year, and those of the year after that carry
\* a previous_league_id
EntriesOf(year) ==
  {i \in 1..Len(league.seasons) : league.seasons[i].season = year}

EntriesPointingTo(year) ==
  {i \in 1..Len(league.seasons) :
     /\ league.seasons[i].season = year + 1
     /\ league.seasons[i].previous_league_id # 0}

\* C24: a requested season resolves to the league_id of the entry of its year;
\* without such an entry, to the previous_league_id of the entry of year + 1
\* that carries one; and otherwise to not-found, a value like any other.
C24_BackwardChainWalk ==
  \A season \in DOMAIN resolved :
    IF EntriesOf(season) # {}
    THEN \E i \in EntriesOf(season) : resolved[season] = league.seasons[i].league_id
    ELSE IF EntriesPointingTo(season) # {}
    THEN \E i \in EntriesPointingTo(season) :
           resolved[season] = league.seasons[i].previous_league_id
    ELSE resolved[season] = 0

\* a season without entry is resolved through an entry that is not the most
\* recent one, and another requested season is not found
C24_Witness ==
  /\ loaderPc = "loaded"
  /\ \E season \in DOMAIN resolved :
       /\ EntriesOf(season) = {}
       /\ resolved[season] # 0
       /\ season + 1 # league.mostRecentSeason.season
  /\ \E season \in DOMAIN resolved : resolved[season] = 0

\* ---------------------------------------------------------------- C25
\* the simulated standings are computed
StandingsComputed == pc \in {"calculateWeeklyImpact", "done"}

\* the entries of a week that share the matchup_id of entry i
PairingOf(w, i) ==
  {j \in 1..Len(simulatedMatchups[w]) :
     simulatedMatchups[w][j].matchup_id = simulatedMatchups[w][i].matchup_id}

\* the games of a roster: its entries <<week, index>> in pairings of exactly two
GamesOf(rosterId) ==
  {g \in UNION {{<<w, i>> : i \in 1..Len(simulatedMatchups[w])} :
                  w \in DOMAIN simulatedMatchups} :
     /\ simulatedMatchups[g[1]][g[2]].roster_id = rosterId
     /\ Cardinality(PairingOf(g[1], g[2])) = 2}

OwnPoints(g) == simulatedMatchups[g[1]][g[2]].points

OpponentPoints(g) ==
  simulatedMatchups[g[1]][CHOOSE j \in PairingOf(g[1], g[2]) : j # g[2]].points

RECURSIVE TotalOwn(_)
TotalOwn(games) ==
  IF games = {} THEN 0
  ELSE LET g == CHOOSE x \in games : TRUE
       IN OwnPoints(g) + TotalOwn(games \ {g})

RECURSIVE TotalOpponent(_)
TotalOpponent(games) ==
  IF games = {} THEN 0
  ELSE LET g == CHOOSE x \in games : TRUE
       IN OpponentPoints(g) + TotalOpponent(games \ {g})

\* C25: in the standings computed from the matchups, a roster has one win for
\* each pairing of exactly two entries in which it scored more, one loss for
\* each in which it scored less and one tie for each with equal points; its
\* points for are its own points in these pairings and its points against the
\* opponents' (both rounded to 2 decimals); entries in a pairing of any other
\* size count for nothing.
C25_PairingsOfTwo ==
  StandingsComputed =>
    \A k \in 1..Len(simulatedStandings) :
      LET team == simulatedStandings[k]
          games == GamesOf(team.rosterId)
      IN /\ team.wins = Cardinality({g \in games : OwnPoints(g) > OpponentPoints(g)})
         /\ team.losses = Cardinality({g \in games : OwnPoints(g) < OpponentPoints(g)})
         /\ team.ties = Cardinality({g \in games : OwnPoints(g) = OpponentPoints(g)})
         /\ team.pointsFor = Round2(TotalOwn(games))
         /\ team.pointsAgainst = Round2(TotalOpponent(games))

\* weeks with a pairing and a bye have been counted, with a win and a tie among
\* the results
C25_Witness ==
  /\ pc = "done"
  /\ \E w \in DOMAIN simulatedMatchups, i \in 1..3 :
       Cardinality(PairingOf(w, i)) = 1
  /\ \E k \in 1..Len(simulatedStandings) : simulatedStandings[k].wins > 0
  /\ \E k \in 1..Len(simulatedStandings) : simulatedStandings[k].ties > 0

\* ---------------------------------------------------------------- C26
\* the number of weeks in which weeklyImpact reports the result for a roster
WeeksWithResult(rosterId, result) ==
  Cardinality(
    {e \in UNION {{<<k, i>> : i \in 1..Len(weeklyImpact[k].teamImpacts)} :
                    k \in 1..Len(weeklyImpact)} :
       /\ weeklyImpact[e[1]].teamImpacts[e[2]].rosterId = rosterId
       /\ weeklyImpact[e[1]].teamImpacts[e[2]].simulatedResult = result})

\* C26: for every roster the weeks reported as 'W', 'L' and 'T' in weeklyImpact
\* are as many as its wins, losses and ties in simulatedStandings, byes and
\* pairings of other than two entries included.
C26_WeeklyResultsMatchStandings ==
  pc = "done" =>
    \A k \in 1..Len(simulatedStandings) :
      LET team == simulatedStandings[k]
      IN /\ WeeksWithResult(team.rosterId, "W") = team.wins
         /\ WeeksWithResult(team.rosterId, "L") = team.losses
         /\ WeeksWithResult(team.rosterId, "T") = team.ties

\* ---------------------------------------------------------------- C27
\* no player is on two rosters of the array, or twice on one
PlayersUnique(rosters) ==
  \A p \in UNION {Elems(rosters[i].players) : i \in 1..Len(rosters)} :
    /\ Cardinality(HoldersOf(rosters, p)) = 1
    /\ \A i \in 1..Len(rosters) : Occurrences(rosters[i].players, p) <= 1

\* the trades of a set that move player p
MovesIn(history, p) == {t \in history : p \in DOMAIN t.adds}

\* A set of trades is a history of the given rosters: the trades have distinct
\* times and are between rosters of the array, and each player moved went from
\* roster to roster along the trades in time order, ending on the one roster
\* that holds the player now.
IsHistory(history) ==
  /\ \A t, u \in history : t # u => t.status_updated # u.status_updated
  /\ \A t \in history : \A p \in DOMAIN t.adds :
       /\ FindRoster(givenRosters, t.adds[p]) # 0
       /\ FindRoster(givenRosters, t.drops[p]) # 0
       /\ \/ \E u \in MovesIn(history, p) :
               /\ t.status_updated < u.status_updated
               /\ \A v \in MovesIn(history, p) :
                    ~(/\ t.status_updated < v.status_updated
                      /\ v.status_updated < u.status_updated)
               /\ u.drops[p] = t.adds[p]
          \/ /\ \A u \in MovesIn(history, p) : u.status_updated <= t.status_updated
             /\ HoldersOf(givenRosters, p) = {t.adds[p]}

\* the undone trades are distinct trades of a history of the given rosters that
\* holds at most one trade more
UndoesPartOfHistory ==
  /\ Cardinality(Elems(tradesToUndo)) = Len(tradesToUndo)
  /\ \E others \in {{}} \cup {{t} : t \in trades} :
       IsHistory(Elems(tradesToUndo) \cup others)

\* C27: when no player is on two of the original rosters, no player is on two
\* of the alternate rosters after undoing any part of the league's trades.
C27_PlayersStayUnique ==
  (UndoFinished /\ PlayersUnique(givenRosters) /\ UndoesPartOfHistory) =>
    PlayersUnique(Alt)

\* ---------------------------------------------------------------- C28
\* every roster's starters are among its players
StartersOnRoster(rosters) ==
  \A i \in 1..Len(rosters) : Elems(rosters[i].starters) \subseteq Elems(rosters[i].players)

\* C28: when every original roster's starters are among its players, then after
\* each undone trade every alternate roster's starters are among its players,
\* and no starter list holds a player it did not hold on the original roster.
C28_StartersStayOnRoster ==
  (alternateRosters # 0 /\ StartersOnRoster(givenRosters)) =>
    /\ StartersOnRoster(Alt)
    /\ \A i \in 1..Len(Alt) :
         Elems(Alt[i].starters) \subseteq Elems(givenRosters[i].starters)

\* two trades have been undone: a starter was taken off a roster and a player
\* was returned to a roster that did not hold them
C28_Witness ==
  /\ UndoFinished
  /\ Len(tradesToUndo) = 2
  /\ \E i \in 1..Len(Alt) :
       Elems(Alt[i].starters) # Elems(givenRosters[i].starters)
  /\ \E i \in 1..Len(Alt) :
       ~(Elems(Alt[i].players) \subseteq Elems(givenRosters[i].players))

\* ---------------------------------------------------------------- C29
\* the trades of a list undone one after the other on a roster array
RECURSIVE UndoInOrder(_, _)
UndoInOrder(rosters, tradeList) ==
  IF tradeList = <<>> THEN rosters
  ELSE UndoInOrder(UndoTrade(rosters, Head(tradeList)), Tail(tradeList))

\* what createAlternateRosters leaves when called with the list
AlternateOf(tradeList) == UndoInOrder(givenRosters, SortTrades(tradeList))

\* the lists that hold the same trades in another order
Reorderings(tradeList) ==
  {[i \in 1..Len(tradeList) |-> tradeList[f[i]]] :
     f \in {g \in [1..Len(tradeList) -> 1..Len(tradeList)] :
              \A i, j \in 1..Len(tradeList) : i # j => g[i] # g[j]}}

DistinctTimes(tradeList) ==
  \A i, j \in 1..Len(tradeList) :
    i # j => tradeList[i].status_updated # tradeList[j].status_updated

SameSets(rostersA, rostersB) ==
  /\ Len(rostersA) = Len(rostersB)
  /\ \A i \in 1..Len(rostersA) :
       /\ Elems(rostersA[i].players) = Elems(rostersB[i].players)
       /\ Elems(rostersA[i].starters) = Elems(rostersB[i].starters)

\* C29: when the undone trades have pairwise distinct status_updated, the
\* alternate rosters, as sets of players and of starters per roster, are those
\* that any reordering of the same list gives.
C29_OrderIndependent ==
  (UndoFinished /\ DistinctTimes(tradesToUndo)) =>
    \A reordered \in Reorderings(tradesToUndo) : SameSets(AlternateOf(reordered), Alt)

\* two trades were passed in oldest first, and undoing them in that order
\* would leave other rosters
C29_Witness ==
  /\ UndoFinished
  /\ Len(tradesToUndo) = 2
  /\ tradesToUndo[1].status_updated < tradesToUndo[2].status_updated
  /\ ~SameSets(UndoInOrder(givenRosters, tradesToUndo), Alt)

\* ---------------------------------------------------------------- C30
\* C30: from a press of Clear until a simulation started after it completes, no
\* simulation result is displayed, also when Clear is pressed while a
\* simulation started earlier awaits its matchups.
C30_NoResultAfterClear ==
  clearedSinceRun => simulationResult = <<>>


====
